---- MODULE Spec2Model ----
(***************************************************************************)
(* LaptopGalleryHybrid (src/unnamed/part_000): the unified image gallery   *)
(* of the laptop form.  The store is the object's fields; every event      *)
(* handler is one action, run to completion; an async handleFiles batch is *)
(* a process that is suspended while the image of its current file is      *)
(* being decoded, and other handlers run in between.                       *)
(***************************************************************************)
EXTENDS Integers, Sequences, FiniteSets, TLC

VARIABLES
    images,            \* this.images
    imagesToDelete,    \* this.imagesToDelete
    nextTempId,        \* this.nextTempId
    currentCoverSlot,  \* this.currentCoverSlot
    objectUrls,        \* this.objectUrls
    cards,             \* number of cards in #images-container-premium (last render)
    inputs,            \* by slot i: the inputs #image_i, #image_i_alt, #image_i_is_cover
    deleteInput,       \* value of the hidden input #images_to_delete
    batch,             \* the handleFiles calls in flight, by call
    revoked,           \* how often URL.revokeObjectURL was called, by preview URL
    notified,          \* showNotification calls of the last handler, in order
    filesGiven,        \* files.length of the FileList the last event carried (0: none)
    altTimers,         \* pending altTimeout timers: the index and the text each will commit
    submitted,         \* the form has been submitted
    unloaded,          \* beforeunload has fired
    hybrid,            \* the LaptopGalleryHybrid of laptop_gallery.js and the page it runs on
    laptopForm,        \* the page of laptop_form_submit.js: its catalog selects and its handler
    api,               \* the ExpensesAPI client of part_001 and its retryRequest call
    priceSlider,       \* the PriceSlider of price-slider.js and its hidden inputs
    slotGallery        \* the slot-based LaptopGallery of laptop_gallery.js and the slots of its page

vars == <<images, imagesToDelete, nextTempId, currentCoverSlot, objectUrls,
          cards, inputs, deleteInput, batch, revoked, notified, filesGiven, altTimers,
          submitted, unloaded, hybrid, laptopForm, api, priceSlider, slotGallery>>

(***************************************************************************)
(* Bounds of the model.  imageConfig.maxImages is 8 in the source; the     *)
(* model keeps every use of it symbolic and checks a smaller capacity.     *)
(* MaxFiles bounds the length of a FileList, MaxTempId the temporary ids   *)
(* (and preview URLs) handed out in a session.                             *)
(***************************************************************************)
maxImages == 3
MaxFiles == 2
MaxTempId == 2
\* the inputs that hold an image when the page is served
MaxHydrated == 2
\* the alt-text timers pending at a time
MaxTimers == 1
\* the catalog fields of the laptop form, of the eleven of fieldsToProcess
MaxFields == 3

(* imageConfig *)
maxSize == 5 * 1024 * 1024
minWidth == 400
minHeight == 300
validTypes == {"image/jpeg", "image/jpg", "image/png", "image/webp", "image/gif"}

Slots == 1..maxImages
\* the handleFiles calls that may be in flight at a time
BatchIds == {1, 2}

\* a component whose script the page does not load
NotOnPage == <<>>

Min(a, b) == IF a < b THEN a ELSE b
Max(a, b) == IF a > b THEN a ELSE b

\* the preview URLs URL.createObjectURL can hand out in a session: one for
\* each temporary id
BlobUrls == {<<"blob", n>> : n \in 1..Max(MaxTempId, 2 * maxImages)}

(***************************************************************************)
(* Files.  A File has a name, a MIME type and a byte size; the Image made  *)
(* from it has natural dimensions once it has loaded (decodes = FALSE: it  *)
(* fires onerror).  The model draws the type and size of a file when       *)
(* validateImageFile reads them, and the image when it has been decoded.   *)
(***************************************************************************)
FileKinds ==
    { [type |-> "image/jpeg", size |-> 1024 * 1024],
      [type |-> "image/bmp",  size |-> 1024 * 1024],
      [type |-> "image/png",  size |-> 6 * 1024 * 1024] }

ImageKinds ==
    { [decodes |-> TRUE,  width |-> 800, height |-> 600],
      [decodes |-> TRUE,  width |-> 399, height |-> 600],
      [decodes |-> FALSE, width |-> 0,   height |-> 0] }

MkFile(name, k) == [name |-> name, type |-> k.type, size |-> k.size]

\* what a FileList of n files can hold: file p of the list is named p
FileAttrs(n) == [1..n -> FileKinds]

MkFiles(names, attrs) == [p \in 1..Len(names) |-> MkFile(names[p], attrs[p])]

(***************************************************************************)
(* validateImageFile: the message of the Error it throws, or "ok".         *)
(***************************************************************************)
\* a validation without the check of the MIME type
rejectedBeforeDecodeAnyType(file) ==
    IF file.size > maxSize THEN "Tamano maximo 5MB" ELSE "ok"

\* the two checks before getImageDimensions
rejectedBeforeDecode(file) ==
    IF file.type \notin validTypes THEN "Formato no valido"
    ELSE IF file.size > maxSize THEN "Tamano maximo 5MB"
    ELSE "ok"

\* image: what getImageDimensions(file) settles with
validateImageFile(file, image) ==
    IF rejectedBeforeDecode(file) # "ok" THEN rejectedBeforeDecode(file)
    ELSE IF ~image.decodes THEN "No se pudo cargar la imagen"
    ELSE IF image.width < minWidth \/ image.height < minHeight THEN "Dimensiones minimas"
    ELSE "ok"

Note(type, message) == [type |-> type, message |-> message]


(***************************************************************************)
(* The form the page was served with: for each slot i the file input       *)
(* image_i (its FileList and data-* attributes) and the hidden input       *)
(* image_i_is_cover.  An absent attribute or empty string is <<>>.         *)
(***************************************************************************)
HydratedFile(i) == MkFile(i, [type |-> "image/jpeg", size |-> 1024 * 1024])

EmptySlot ==
    [files |-> <<>>, alt |-> <<>>, coverInput |-> "false",
     dataImageUrl |-> <<>>, dataImageId |-> <<>>, dataIsCover |-> "false"]

SlotStates(i) ==
    {EmptySlot}
    \cup { [EmptySlot EXCEPT !.files = <<HydratedFile(i)>>, !.coverInput = c] : c \in {"true", "false"} }
    \cup { [EmptySlot EXCEPT !.dataImageUrl = <<"http", i>>, !.dataImageId = <<"db", i>>,
                             !.dataIsCover = c] : c \in {"true", "false"} }

Forms ==
    { f \in [Slots -> UNION {SlotStates(i) : i \in Slots}] :
        /\ \A i \in Slots : f[i] \in SlotStates(i)
        /\ Cardinality({i \in Slots : f[i] # EmptySlot}) <= MaxHydrated
        /\ Cardinality({i \in Slots : Len(f[i].files) > 0}) <= MaxTempId }

(***************************************************************************)
(* loadExistingImages                                                      *)
(***************************************************************************)
\* one iteration of the for loop; st holds the fields the loop writes
loadSlot(input, i, st) ==
    IF Len(input.files) > 0 THEN
        LET isCover == IF input.coverInput = "absent" THEN i = 1 ELSE input.coverInput = "true"
            imageData == [id |-> <<"temp", st.nextTempId>>,
                          type |-> "new",
                          source |-> [file |-> input.files[1]],
                          url |-> <<"blob", st.nextTempId>>,
                          alt |-> IF input.alt # <<>> THEN input.alt ELSE <<"Imagen", i>>,
                          isCover |-> isCover,
                          slot |-> i,
                          name |-> input.files[1].name]
        IN  [images |-> Append(st.images, imageData),
             nextTempId |-> st.nextTempId + 1,
             currentCoverSlot |-> IF isCover THEN i ELSE st.currentCoverSlot,
             objectUrls |-> st.objectUrls \cup {imageData.url}]
    ELSE IF input.dataImageUrl # <<>> THEN
        LET isCover == input.dataIsCover = "true"
            imageData == [id |-> IF input.dataImageId # <<>> THEN input.dataImageId ELSE <<"slot", i>>,
                          type |-> "existing",
                          source |-> [href |-> input.dataImageUrl],
                          url |-> input.dataImageUrl,
                          alt |-> IF input.alt # <<>> THEN input.alt ELSE <<"Imagen", i>>,
                          isCover |-> isCover,
                          slot |-> i,
                          name |-> i]
        IN  [st EXCEPT !.images = Append(st.images, imageData),
                       !.currentCoverSlot = IF isCover THEN i ELSE st.currentCoverSlot]
    ELSE st

RECURSIVE loadSlots(_, _, _)
loadSlots(form, i, st) ==
    IF i > maxImages THEN st ELSE loadSlots(form, i + 1, loadSlot(form[i], i, st))

hasCover(imgs) == \E k \in 1..Len(imgs) : imgs[k].isCover

loadExistingImages(form) ==
    LET st == loadSlots(form, 1, [images |-> <<>>, nextTempId |-> 1,
                                  currentCoverSlot |-> 1, objectUrls |-> {}])
    IN  IF Len(st.images) > 0 /\ ~hasCover(st.images)
        THEN [st EXCEPT !.images[1].isCover = TRUE, !.currentCoverSlot = st.images[1].slot]
        ELSE st

(***************************************************************************)
(* render: this.images.sort((a, b) => a.slot - b.slot) is a stable sort;   *)
(* one card per entry, card k carrying index k.                            *)
(***************************************************************************)
insertBySlot(sorted, e) ==
    LET n == Cardinality({k \in 1..Len(sorted) : sorted[k].slot <= e.slot})
    IN  SubSeq(sorted, 1, n) \o <<e>> \o SubSeq(sorted, n + 1, Len(sorted))

RECURSIVE sortBySlot(_)
sortBySlot(imgs) ==
    IF imgs = <<>> THEN <<>>
    ELSE insertBySlot(sortBySlot(SubSeq(imgs, 1, Len(imgs) - 1)), imgs[Len(imgs)])

(***************************************************************************)
(* syncFormInputs and syncDeletedImages.  The first loop writes '' to the  *)
(* value of a file input only when the value is '' already, so it leaves   *)
(* the FileList of every input as it is.  The data-* attributes the second *)
(* loop writes are read by loadExistingImages only, before any of this.    *)
(***************************************************************************)
\* the first loop: every alt input and cover input is reset
clearInputs(inp) == [i \in Slots |-> [inp[i] EXCEPT !.alt = <<>>, !.cover = "false"]]

\* the callback of the second loop for one image; there is no input for a
\* slot above maxImages
writeInput(inp, imageData) ==
    IF imageData.slot \notin Slots THEN inp
    ELSE [inp EXCEPT ![imageData.slot] =
            [files |-> IF imageData.type = "new" THEN <<imageData.source.file>> ELSE @.files,
             alt   |-> imageData.alt,
             cover |-> IF imageData.isCover THEN "true" ELSE "false"]]

\* this.images.forEach of the second loop, from the image at k on
RECURSIVE writeInputs(_, _, _)
writeInputs(inp, imgs, k) ==
    IF k > Len(imgs) THEN inp ELSE writeInputs(writeInput(inp, imgs[k]), imgs, k + 1)

syncFormInputs(inp, imgs) == writeInputs(clearInputs(inp), imgs, 1)

\* JSON.stringify of an array of ids, as its tokens: the id of a
\* data-image-id attribute is a string, the id an input without one falls
\* back to is the number of its slot
jsonOfId(id) == IF id[1] = "slot" THEN <<"number", id[2]>> ELSE <<"string", id[1], id[2]>>

stringify(ids) ==
    << <<"[">> >>
    \o [k \in 1..(2 * Len(ids) - (IF Len(ids) > 0 THEN 1 ELSE 0)) |->
          IF k % 2 = 1 THEN jsonOfId(ids[(k + 1) \div 2]) ELSE <<",">>]
    \o << <<"]">> >>

\* deleteInput.value = JSON.stringify(this.imagesToDelete)
syncDeletedImages(toDelete) == stringify(toDelete)

\* a render that leaves #images_to_delete as it is
renderWithoutDeleted(imgs, toDelete) ==
    /\ images' = sortBySlot(imgs)
    /\ cards' = Len(imgs)
    /\ inputs' = syncFormInputs(inputs, sortBySlot(imgs))
    /\ deleteInput' = deleteInput

\* toDelete: this.imagesToDelete when render runs
render(imgs, toDelete) ==
    /\ images' = sortBySlot(imgs)
    /\ cards' = Len(imgs)
    /\ inputs' = syncFormInputs(inputs, sortBySlot(imgs))
    /\ deleteInput' = syncDeletedImages(toDelete)

(***************************************************************************)
(* laptop_form_submit.js and the change listeners of laptop_form.js.       *)
(* laptopForm holds the values of the catalog selects (NoValue: nothing    *)
(* selected, val() is null), whether #category has a value, the closure    *)
(* variable isSubmitting, whether the submit buttons are disabled, the     *)
(* createNextItem chain that is running (newItemsToCreate, the index whose *)
(* POST is in flight), and what the page has done: the creation POSTs of   *)
(* the attempt in the order they were issued, those that succeeded, the    *)
(* fields that held a 'new:' value when the attempt began, whether a POST   *)
(* of the attempt failed, the values the native submission carried, the    *)
(* last alert, and whether a callback ended in an uncaught TypeError.  The *)
(* submit button has its value (label, served with the page) and the       *)
(* handler's originalText.                                                 *)
(***************************************************************************)
\* fieldsToProcess, in its order; the model runs its first MaxFields fields
AllFields ==
    <<"brand_id", "model_id", "processor_id", "os_id", "screen_id", "graphics_card_id",
      "storage_id", "ram_id", "store_id", "location_id", "supplier_id">>

fieldsToProcess == SubSeq(AllFields, 1, Min(MaxFields, Len(AllFields)))

FieldNames == {fieldsToProcess[k] : k \in 1..Len(fieldsToProcess)}

\* the values a select can have: none, the id of a catalog row, or the id
\* 'new:' + term of a tag made by createTag
NoValue == <<"none", 0>>
RowId(n) == <<"id", n>>
NewTag(term) == <<"new", term>>
FieldValues == {NoValue, RowId(1), NewTag(1)}

\* value && value.toString().startsWith('new:')
startsWithNew(value) == value # NoValue /\ value[1] = "new"

\* value.substring(4) of a value that is not null: the term of a tag; of the
\* id of a row, what is left of it after four characters
substring4(value) == IF value[1] = "new" THEN <<"term", value[2]>> ELSE <<"rest", value[2]>>

\* the fields generateDisplayName reads
NamedFields == {"brand_id", "model_id", "processor_id", "ram_id", "storage_id", "screen_id"}

\* generateDisplayName: #display_name is empty when no field it reads has a
\* selection and #category has no label
displayNameEmpty(fields, category) ==
    /\ \A f \in FieldNames \cap NamedFields : fields[f] = NoValue
    /\ ~category

\* $(selector).val(value).trigger('change'), with the listener of #brand_id
\* that empties #model_id
changeField(fields, f, value) ==
    IF f = "brand_id" /\ "model_id" \in FieldNames
    THEN [fields EXCEPT ![f] = value, !["model_id"] = NoValue]
    ELSE [fields EXCEPT ![f] = value]

RECURSIVE collectNewFirstOnly(_, _)
\* a loop that leaves after the first field it finds
collectNewFirstOnly(fields, k) ==
    IF k > Len(fieldsToProcess) THEN <<>>
    ELSE IF startsWithNew(fields[fieldsToProcess[k]])
         THEN <<fieldsToProcess[k]>>
         ELSE collectNewFirstOnly(fields, k + 1)

RECURSIVE collectNew(_, _)
\* the loop that fills newItemsToCreate, from field k on
collectNew(fields, k) ==
    IF k > Len(fieldsToProcess) THEN <<>>
    ELSE IF startsWithNew(fields[fieldsToProcess[k]])
         THEN <<fieldsToProcess[k]>> \o collectNew(fields, k + 1)
         ELSE collectNew(fields, k + 1)

\* field.extraData(): the POST of #model_id carries brand_id when #brand_id
\* has a value that does not start with 'new:'; NoValue: no brand_id sent
extraData(fields, field) ==
    IF field = "model_id" /\ "brand_id" \in FieldNames
       /\ fields["brand_id"] # NoValue /\ ~startsWithNew(fields["brand_id"])
    THEN fields["brand_id"]
    ELSE NoValue

NoChain == [items |-> <<>>, index |-> 0, awaiting |-> FALSE]

\* form[0].submit(): the browser sends the fields as they are and leaves the page
nativeSubmit(s) == [s EXCEPT !.sent = <<s.fields>>, !.chain = NoChain]

\* createNextItem(index) of the attempt whose newItemsToCreate is items
createNextItem(s, items, index) ==
    IF index >= Len(items) THEN
        nativeSubmit([s EXCEPT !.isSubmitting = TRUE])
    ELSE
        LET field == items[index + 1]
            value == s.fields[field]
        IN  IF value = NoValue
            THEN [s EXCEPT !.thrown = TRUE, !.chain = NoChain]
            ELSE [s EXCEPT !.posted = Append(@, [field |-> field, name |-> substring4(value),
                                                 brand_id |-> extraData(s.fields, field)]),
                           !.chain = [items |-> items, index |-> index, awaiting |-> TRUE]]

\* the value of the submit button in the pages that carry the form
ServedLabels == {"Guardar Laptop", "Actualizar Laptop"}

\* submitBtn.val() || 'Guardar Laptop'
originalTextOf(label) == IF label = "" THEN "Guardar Laptop" ELSE label

\* the page as served, with the selects at fields and the submit button
\* labelled label
FS_Loaded(fields, category, label) ==
    [fields |-> fields, category |-> category, isSubmitting |-> FALSE, disabled |-> FALSE,
     label |-> label, served |-> label, originalText |-> "", failed |-> FALSE,
     chain |-> NoChain, posted |-> <<>>, succeeded |-> <<>>, heldNew |-> {},
     sent |-> <<>>, alerted |-> <<>>, thrown |-> FALSE]

\* a page without the laptop form
FS_NoForm == FS_Loaded([f \in FieldNames |-> NoValue], FALSE, "")


(***************************************************************************)
(* ExpensesAPI of part_001.  An error message is the sequence of its       *)
(* characters.  api holds the retryRequest call: where it is (idle,        *)
(* calling: awaiting request; sleeping: awaiting the timer; returned;      *)
(* thrown), its maxRetries and attempt, the outcome of every request call  *)
(* it made, lastError, and the error it threw; and, with time counted in    *)
(* minutes, the clock, this.cache (of a cached value the model keeps the   *)
(* minute its response arrived; of expenses and notifications nothing),    *)
(* the calls of the cached getters and of getExpenses that await their     *)
(* request, and what the last getter call returned.                        *)
(***************************************************************************)
\* the retries a caller asks for (3 when it passes none)
MaxRetries == 3

Chars(n) == <<"0", "1", "2", "3", "4", "5", "6", "7", "8", "9">>[n + 1]

\* `${response.status}`
statusChars(status) ==
    <<Chars(status \div 100), Chars((status \div 10) % 10), Chars(status % 10)>>

\* message.includes(pattern)
includes(message, pattern) ==
    \E i \in 1..(Len(message) - Len(pattern) + 1) :
        SubSeq(message, i, i + Len(pattern) - 1) = pattern

\* the status of a response that is not ok
Statuses == {404, 429, 500, 504}

\* response.statusText
statusText(status) ==
    CASE status = 404 -> <<"N", "o", "t", " ", "F", "o", "u", "n", "d">>
      [] status = 429 ->
           <<"T", "o", "o", " ", "M", "a", "n", "y", " ", "R", "e", "q", "u", "e", "s", "t", "s">>
      [] status = 500 ->
           <<"I", "n", "t", "e", "r", "n", "a", "l", " ", "S", "e", "r", "v", "e", "r", " ", "E", "r", "r", "o", "r">>
      [] OTHER ->
           <<"G", "a", "t", "e", "w", "a", "y", " ", "T", "i", "m", "e", "o", "u", "t">>

\* errorData.error as a server words it: 'No existe', 'Espere 4 min'
ServerTexts ==
    { <<"N", "o", " ", "e", "x", "i", "s", "t", "e">>,
      <<"E", "s", "p", "e", "r", "e", " ", "4", " ", "m", "i", "n">> }

\* the body of a response that is not ok: JSON with an error text, JSON
\* without one, or no JSON at all
Bodies ==
    {[kind |-> "error", text |-> t] : t \in ServerTexts}
        \cup {[kind |-> "noerror", text |-> <<>>], [kind |-> "nojson", text |-> <<>>]}

\* what a request call can end in: the parsed body of an ok response, fetch
\* rejecting, or a response that is not ok
Outcomes ==
    {[kind |-> "ok", status |-> 200, body |-> [kind |-> "noerror", text |-> <<>>]],
     [kind |-> "network", status |-> 0, body |-> [kind |-> "nojson", text |-> <<>>]]}
        \cup {[kind |-> "http", status |-> st, body |-> b] : st \in Statuses, b \in Bodies}

\* request: the message of the Error it throws for an outcome that is not ok
requestError(outcome) ==
    LET Error == <<"E", "r", "r", "o", "r", " ">> \o statusChars(outcome.status)
    IN  IF outcome.kind = "network"
        THEN <<"F", "a", "i", "l", "e", "d", " ", "t", "o", " ", "f", "e", "t", "c", "h">>
        ELSE CASE outcome.body.kind = "error" -> outcome.body.text
               [] outcome.body.kind = "noerror" -> Error
               [] OTHER -> Error \o <<":", " ">> \o statusText(outcome.status)

\* undefined, where a message is expected
NoError == <<>>

\* the minutes the clock runs
MaxClock == 6

\* 5 * 60 * 1000 ms
maxAge == 5

\* getDashboardData and getCategories, by the key of this.cache they keep
CachedKeys == {"dashboard", "categories"}

\* null, in this.cache
Null == <<>>

\* no call in flight
NotCalled == [pc |-> "idle", now |-> 0]

\* a new client: nothing cached, no call made
API_New ==
    [pc |-> "idle", maxRetries |-> 0, attempt |-> 0, calls |-> <<>>,
     lastError |-> NoError, thrownError |-> NoError,
     clock |-> 0,
     cache |-> [dashboard |-> Null, categories |-> Null, lastUpdated |-> Null],
     getter |-> [key \in CachedKeys |-> NotCalled],
     getExpenses |-> "idle",
     returned |-> <<>>]


(***************************************************************************)
(* PriceSlider of price-slider.js.  Prices are whole numbers; the hidden   *)
(* inputs hold what toFixed(2) wrote, in hundredths.  The slider is as     *)
(* many pixels wide as the range of prices, so that every pixel is a whole *)
(* price.                                                                  *)
(***************************************************************************)
\* the highest price in the database
MaxPrice == 5

\* value || fallback, of a number
orElse(value, fallback) == IF value = 0 THEN fallback ELSE value

\* price.toFixed(2), and parseFloat of it
toFixed2(price) == price * 100
parseFloat(text) == text \div 100

\* no PriceSlider was constructed
PS_None ==
    [built |-> FALSE, dbMinPrice |-> 0, dbMaxPrice |-> 0, minInput |-> 0, maxInput |-> 0,
     isDraggingMin |-> FALSE, isDraggingMax |-> FALSE]

\* updateSlider(minPrice, maxPrice) of the slider s
updateSlider(s, minPrice, maxPrice) ==
    LET lo == Max(s.dbMinPrice, Min(minPrice, s.dbMaxPrice))
        hi == Max(s.dbMinPrice, Min(maxPrice, s.dbMaxPrice))
        top == IF lo >= hi THEN lo + 1 ELSE hi
    IN  [s EXCEPT !.minInput = toFixed2(lo), !.maxInput = toFixed2(top)]

\* positionToPrice of the position of pixel x, on a slider width pixels wide
positionToPrice(s, x, width) ==
    s.dbMinPrice + (x * (s.dbMaxPrice - s.dbMinPrice)) \div width

\* handleDrag(e, isMin) with the pointer at pixel x, clamped to the slider
handleDrag(s, x, isMin) ==
    LET width == s.dbMaxPrice - s.dbMinPrice
        price == positionToPrice(s, Max(0, Min(width, x)), width)
    IN  IF isMin
        THEN LET maxPrice == parseFloat(s.maxInput)
             IN  updateSlider(s, Min(price, maxPrice - 1), maxPrice)
        ELSE LET minPrice == parseFloat(s.minInput)
             IN  updateSlider(s, minPrice, Max(price, minPrice + 1))


(***************************************************************************)
(* The slot-based LaptopGallery of laptop_gallery.js (l.703-1090).  The    *)
(* page has slotCount slots (8 in the source); slotGallery holds, by slot, *)
(* whether its preview is visible, whether its file input holds a file and *)
(* how many FileReader loads are under way for it; totalImages; the text   *)
(* of #image-counter; and the alerts of the last handler.                  *)
(***************************************************************************)
slotCount == 3
\* the FileReader loads under way at a time
MaxPending == 3

SlotNumbers == 1..slotCount

\* the object as its literal declares it, on a page without slots shown
SG_Declared ==
    [visible |-> [i \in SlotNumbers |-> FALSE], hasFile |-> [i \in SlotNumbers |-> FALSE],
     loading |-> [i \in SlotNumbers |-> 0], totalImages |-> 0, counter |-> 0,
     alerted |-> <<>>]

\* updateImageCounter
updateImageCounter(s) ==
    LET count == Cardinality({i \in SlotNumbers : s.visible[i]})
    IN  [s EXCEPT !.counter = count, !.totalImages = count]

\* validateImageFile of the slot-based gallery: alerts and refuses
SG_validateImageFile(file) == file.type \in validTypes /\ file.size <= maxSize

SG_alertFor(file) ==
    IF file.type \notin validTypes THEN "Formato no valido" ELSE "Imagen muy grande"

\* uploadToSlot(file, slot): the file goes to the input, a FileReader starts
uploadToSlot(s, slot) ==
    [s EXCEPT !.hasFile[slot] = TRUE, !.loading[slot] = @ + 1]

RECURSIVE SG_nextEmpty(_, _)
\* the while loop of handleFiles: the first slot from currentSlot on whose
\* preview is not visible, slotCount + 1 when there is none
SG_nextEmpty(s, currentSlot) ==
    IF currentSlot > slotCount THEN slotCount + 1
    ELSE IF ~s.visible[currentSlot] THEN currentSlot
    ELSE SG_nextEmpty(s, currentSlot + 1)

RECURSIVE SG_forEach(_, _, _, _)
\* fileArray.forEach of handleFiles, from file k on
SG_forEach(s, fileArray, k, currentSlot) ==
    IF k > Len(fileArray) THEN s
    ELSE IF currentSlot > slotCount THEN SG_forEach(s, fileArray, k + 1, currentSlot)
    ELSE IF ~SG_validateImageFile(fileArray[k])
    THEN SG_forEach([s EXCEPT !.alerted = Append(@, SG_alertFor(fileArray[k]))],
                    fileArray, k + 1, currentSlot)
    ELSE LET slot == SG_nextEmpty(s, currentSlot)
         IN  IF slot > slotCount THEN SG_forEach(s, fileArray, k + 1, slot)
             ELSE SG_forEach(uploadToSlot(s, slot), fileArray, k + 1, slot + 1)

\* handleFiles(files) of the slot-based gallery
SG_handleFiles(s, files) ==
    LET fileArray == SubSeq(files, 1, Min(Len(files), slotCount - s.totalImages))
    IN  updateImageCounter(SG_forEach([s EXCEPT !.alerted = <<>>], fileArray, 1, 1))


\* laptop_gallery.js: the object as its literal declares it, on a page whose
\* DOMContentLoaded timer has not called init() (the pages of the other
\* specifications run the gallery above)
LG_Declared ==
    [images |-> <<>>, imagesToDelete |-> <<>>, cards |-> 0, placeholder |-> FALSE,
     counter |-> -1, altInputs |-> [i \in Slots |-> <<>>], deleteInput |-> <<>>,
     notified |-> <<>>, thrown |-> FALSE]

IdleBatch == [pc |-> "idle", fileArray |-> <<>>, i |-> 0, successCount |-> 0]

\* init() on the page served with form
InitFrom(form) ==
        LET st == loadExistingImages(form) IN
        /\ images = sortBySlot(st.images)
        /\ cards = Len(st.images)
        /\ inputs = syncFormInputs([i \in Slots |-> [files |-> form[i].files, alt |-> form[i].alt,
                                                      cover |-> form[i].coverInput]],
                                   sortBySlot(st.images))
        /\ deleteInput = syncDeletedImages(<<>>)
        /\ imagesToDelete = <<>>
        /\ nextTempId = st.nextTempId
        /\ currentCoverSlot = st.currentCoverSlot
        /\ objectUrls = st.objectUrls
        /\ batch = [b \in BatchIds |-> IdleBatch]
        /\ revoked = [u \in BlobUrls |-> 0]
        /\ notified = <<>>
        /\ filesGiven = 0
        /\ altTimers = {}
        /\ submitted = FALSE
        /\ unloaded = FALSE

Init == \E form \in Forms : InitFrom(form) /\ hybrid = LG_Declared /\ laptopForm = FS_NoForm /\ api = NotOnPage /\ priceSlider = NotOnPage /\ slotGallery = NotOnPage

(***************************************************************************)
(* The forms of an edit page: an input that holds an image shows a stored  *)
(* one, with the key of its row in data-image-id or without the attribute  *)
(* (its id is then the number of its slot), or it holds a file the browser *)
(* has restored.  No two inputs carry the same key.                        *)
(***************************************************************************)
StoredSlotStates(i) ==
    {EmptySlot}
    \cup { [EmptySlot EXCEPT !.files = <<HydratedFile(i)>>] }
    \cup { [EmptySlot EXCEPT !.dataImageUrl = <<"http", i>>] }
    \cup { [EmptySlot EXCEPT !.dataImageUrl = <<"http", i>>, !.dataImageId = <<"db", d>>] : d \in Slots }

StoredForms ==
    { f \in [Slots -> UNION {StoredSlotStates(i) : i \in Slots}] :
        /\ \A i \in Slots : f[i] \in StoredSlotStates(i)
        /\ Cardinality({i \in Slots : Len(f[i].files) > 0}) <= MaxTempId
        /\ \A i, j \in Slots :
              (i # j /\ f[i].dataImageId # <<>>) => f[i].dataImageId # f[j].dataImageId }

InitStored == \E form \in StoredForms : InitFrom(form) /\ hybrid = LG_Declared /\ laptopForm = FS_NoForm /\ api = NotOnPage /\ priceSlider = NotOnPage /\ slotGallery = NotOnPage


(***************************************************************************)
(* Array helpers (JavaScript indices are 0-based, sequences 1-based).      *)
(***************************************************************************)
\* a splice that takes nothing out
spliceOutNothing(a, index) == a

\* a.splice(index, 1)
spliceOut(a, index) == SubSeq(a, 1, index) \o SubSeq(a, index + 2, Len(a))

\* a.splice(index, 0, e)
spliceIn(a, index, e) ==
    LET at == Min(index, Len(a)) IN SubSeq(a, 1, at) \o <<e>> \o SubSeq(a, at + 1, Len(a))

\* a.findIndex(img => img.slot === slot), -1 when there is none
findIndexBySlot(a, slot) ==
    LET hits == {k \in 1..Len(a) : a[k].slot = slot}
    IN  IF hits = {} THEN -1 ELSE (CHOOSE k \in hits : \A j \in hits : k <= j) - 1

noCallInFlight == \A b \in BatchIds : batch[b].pc = "idle"

(***************************************************************************)
(* setAsCover(index), from the card's crown button                         *)
(***************************************************************************)
\* a setAsCover that leaves the flags of the other entries as they are
setAsCoverKeepsOthers(index) ==
    IF index < 0 \/ index >= Len(images) THEN
        /\ notified' = <<>>
        /\ UNCHANGED <<images, cards, inputs, deleteInput, currentCoverSlot>>
    ELSE
        /\ currentCoverSlot' = images[index + 1].slot
        /\ render([images EXCEPT ![index + 1].isCover = TRUE], imagesToDelete)
        /\ notified' = <<Note("success", "Portada actualizada correctamente")>>

setAsCover(index) ==
    IF index < 0 \/ index >= Len(images) THEN
        /\ notified' = <<>>
        /\ UNCHANGED <<images, cards, inputs, deleteInput, currentCoverSlot>>
    ELSE
        LET newCoverImage == images[index + 1]
            cleared == [k \in 1..Len(images) |-> [images[k] EXCEPT !.isCover = FALSE]]
            marked == [cleared EXCEPT ![index + 1].isCover = TRUE]
        IN  /\ currentCoverSlot' = newCoverImage.slot
            /\ render(marked, imagesToDelete)
            /\ notified' = <<Note("success", "Portada actualizada correctamente")>>

clickSetCover ==
    /\ ~unloaded
    /\ UNCHANGED <<hybrid, laptopForm, api, priceSlider, slotGallery>>
    /\ \E index \in 0..(cards - 1) : setAsCover(index)
    /\ filesGiven' = 0
    /\ UNCHANGED <<imagesToDelete, nextTempId, objectUrls, batch, revoked, altTimers,
                   submitted, unloaded>>

\* the change listener of #cover-selector; its options are the slots of the cards
coverSelectorChange ==
    /\ ~unloaded
    /\ UNCHANGED <<hybrid, laptopForm, api, priceSlider, slotGallery>>
    /\ \E k \in 1..cards :
          LET selectedSlot == images[k].slot
              imageIndex == findIndexBySlot(images, selectedSlot)
          IN  IF selectedSlot > 0 /\ imageIndex # -1
              THEN setAsCover(imageIndex)
              ELSE notified' = <<>> /\ UNCHANGED <<images, cards, inputs, deleteInput, currentCoverSlot>>
    /\ filesGiven' = 0
    /\ UNCHANGED <<imagesToDelete, nextTempId, objectUrls, batch, revoked, altTimers,
                   submitted, unloaded>>

(***************************************************************************)
(* deleteImage(index), from the card's trash button; confirmed is the      *)
(* answer to confirm()                                                     *)
(***************************************************************************)
\* a deletion that leaves the preview URL in this.objectUrls
releaseUrlKept(urls, imageData) == urls

\* this.objectUrls after the branch that releases the preview URL of a new image
releaseUrl(urls, imageData) ==
    IF imageData.type = "new" /\ imageData.url[1] = "blob" THEN urls \ {imageData.url} ELSE urls

\* a deletion that promotes nothing
promoteFirstForgotten(rest, wasCover) == rest

\* the images after the branch that follows the splice
promoteFirst(rest, wasCover) ==
    IF wasCover /\ Len(rest) > 0 THEN [rest EXCEPT ![1].isCover = TRUE] ELSE rest

\* the question confirm() puts to the user
ConfirmPrompt == Note("confirm", "Estas seguro de que quieres eliminar")

\* a deleteImage that goes on whatever the answer to confirm() is
deleteImageUnasked(index, confirmed) ==
    IF index < 0 \/ index >= Len(images) THEN
        /\ notified' = <<>>
        /\ UNCHANGED <<images, cards, inputs, deleteInput, imagesToDelete, currentCoverSlot,
                       objectUrls, revoked>>
    ELSE
        LET imageData == images[index + 1]
            release == imageData.type = "new" /\ imageData.url[1] = "blob"
            wasCover == imageData.isCover
            rest == spliceOut(images, index)
            promoted == promoteFirst(rest, wasCover)
        IN  /\ imagesToDelete' = IF imageData.type = "existing"
                                 THEN Append(imagesToDelete, imageData.id) ELSE imagesToDelete
            /\ revoked' = IF release
                          THEN [revoked EXCEPT ![imageData.url] = @ + 1] ELSE revoked
            /\ objectUrls' = releaseUrl(objectUrls, imageData)
            /\ currentCoverSlot' = IF wasCover /\ Len(rest) > 0 THEN rest[1].slot
                                   ELSE IF Len(rest) = 0 THEN 1
                                   ELSE currentCoverSlot
            /\ render(promoted, imagesToDelete')
            /\ notified' = IF confirmed
                           THEN <<Note("success", "Imagen eliminada correctamente")>>
                           ELSE <<ConfirmPrompt>>

deleteImage(index, confirmed) ==
    IF index < 0 \/ index >= Len(images) THEN
        /\ notified' = <<>>
        /\ UNCHANGED <<images, cards, inputs, deleteInput, imagesToDelete, currentCoverSlot,
                       objectUrls, revoked>>
    ELSE IF ~confirmed THEN
        /\ notified' = <<ConfirmPrompt>>
        /\ UNCHANGED <<images, cards, inputs, deleteInput, imagesToDelete, currentCoverSlot,
                       objectUrls, revoked>>
    ELSE
        LET imageData == images[index + 1]
            release == imageData.type = "new" /\ imageData.url[1] = "blob"
            wasCover == imageData.isCover
            rest == spliceOut(images, index)
            promoted == promoteFirst(rest, wasCover)
        IN  /\ imagesToDelete' = IF imageData.type = "existing"
                                 THEN Append(imagesToDelete, imageData.id) ELSE imagesToDelete
            /\ revoked' = IF release
                          THEN [revoked EXCEPT ![imageData.url] = @ + 1] ELSE revoked
            /\ objectUrls' = releaseUrl(objectUrls, imageData)
            /\ currentCoverSlot' = IF wasCover /\ Len(rest) > 0 THEN rest[1].slot
                                   ELSE IF Len(rest) = 0 THEN 1
                                   ELSE currentCoverSlot
            /\ render(promoted, imagesToDelete')
            /\ notified' = <<Note("success", "Imagen eliminada correctamente")>>

\* the click on the trash button of card index, answered with confirmed
clickDeleteOn(index, confirmed) ==
    /\ ~unloaded
    /\ UNCHANGED <<hybrid, laptopForm, api, priceSlider, slotGallery>>
    /\ index \in 0..(cards - 1)
    /\ deleteImage(index, confirmed)
    /\ filesGiven' = 0
    /\ UNCHANGED <<nextTempId, batch, altTimers, submitted, unloaded>>

clickDelete == \E index \in 0..(cards - 1), confirmed \in BOOLEAN : clickDeleteOn(index, confirmed)


(***************************************************************************)
(* addNewImage(file) and getNextSlot()                                     *)
(***************************************************************************)
\* a search for the free slot that runs from maxImages down
getNextSlotFromTop(imgs) ==
    IF Len(imgs) = 0 THEN 1
    ELSE LET usedSlots == {imgs[k].slot : k \in 1..Len(imgs)}
             free == {i \in 1..maxImages : i \notin usedSlots}
         IN  IF free # {} THEN CHOOSE i \in free : \A j \in free : i >= j
             ELSE Len(imgs) + 1

getNextSlot(imgs) ==
    IF Len(imgs) = 0 THEN 1
    ELSE LET usedSlots == {imgs[k].slot : k \in 1..Len(imgs)}
             free == {i \in 1..maxImages : i \notin usedSlots}
         IN  IF free # {} THEN CHOOSE i \in free : \A j \in free : i <= j
             ELSE Len(imgs) + 1

\* st holds the fields addNewImage reads and writes
addNewImage(st, file) ==
    LET url == <<"blob", st.nextTempId>>
        willBeCover == Len(st.images) = 0 \/ ~hasCover(st.images)
        imageData == [id |-> <<"temp", st.nextTempId>>,
                      type |-> "new",
                      source |-> [file |-> file],
                      url |-> url,
                      alt |-> <<"Imagen de", file.name>>,
                      isCover |-> willBeCover,
                      slot |-> getNextSlot(st.images),
                      name |-> file.name]
    IN  [images |-> Append(st.images, imageData),
         nextTempId |-> st.nextTempId + 1,
         currentCoverSlot |-> IF willBeCover THEN imageData.slot ELSE st.currentCoverSlot,
         objectUrls |-> st.objectUrls \cup {url}]

(***************************************************************************)
(* handleFiles(files).  The call runs until validateImageFile waits for    *)
(* the Image of a file to load; a file that validateImageFile rejects      *)
(* before decoding it costs no wait.                                       *)
(***************************************************************************)
\* the notifications of the capacity checks at the head of handleFiles,
\* with n images present and k files given
capacityNotes(n, k) ==
    LET availableSlots == maxImages - n
    IN  IF availableSlots <= 0 THEN <<Note("error", "Ya tienes el maximo de imagenes")>>
        ELSE IF k > availableSlots THEN <<Note("warning", "Solo puedes agregar")>>
        ELSE <<>>

\* a handleFiles that takes every file given
sliceFilesAll(files, availableSlots) == files

\* Array.from(files).slice(0, availableSlots)
sliceFiles(files, availableSlots) == SubSeq(files, 1, Min(Len(files), availableSlots))

\* the first file from index i on (1-based) that has to be decoded
RECURSIVE nextDecode(_, _)
nextDecode(fileArray, i) ==
    IF i > Len(fileArray) THEN i
    ELSE IF rejectedBeforeDecode(fileArray[i]) = "ok" THEN i
    ELSE nextDecode(fileArray, i + 1)

\* the catch branch of the files i..j-1
rejectionNotes(fileArray, i, j) ==
    [k \in 1..(j - i) |-> Note("error", rejectedBeforeDecode(fileArray[i + k - 1]))]

\* the for loop of call b from file i on, with imgs the images so far, until
\* the next wait or the end of handleFiles; the call keeps the names of its
\* files, fileArray is those files with the attributes read in this step
resumeLoop(b, rec, fileArray, i, imgs, notes) ==
    LET j == nextDecode(fileArray, i)
        ns == notes \o rejectionNotes(fileArray, i, j)
    IN  IF j <= Len(fileArray) THEN
            /\ batch' = [batch EXCEPT ![b] = [rec EXCEPT !.pc = "decoding", !.i = j]]
            /\ images' = imgs
            /\ UNCHANGED <<cards, inputs, deleteInput>>
            /\ notified' = ns
        ELSE
            /\ batch' = [batch EXCEPT ![b] = IdleBatch]
            /\ IF rec.successCount > 0
               THEN /\ render(imgs, imagesToDelete)
                    /\ notified' = ns \o <<Note("success", "agregadas correctamente")>>
               ELSE /\ images' = imgs
                    /\ UNCHANGED <<cards, inputs, deleteInput>>
                    /\ notified' = ns

handleFiles(b, files) ==
    LET availableSlots == maxImages - Len(images)
        fileArray == sliceFiles(files, availableSlots)
        rec == [pc |-> "decoding", fileArray |-> [p \in 1..Len(fileArray) |-> fileArray[p].name],
                i |-> 1, successCount |-> 0]
    IN  IF availableSlots <= 0 THEN
            /\ notified' = capacityNotes(Len(images), Len(files))
            /\ UNCHANGED <<images, cards, inputs, deleteInput, batch>>
        ELSE
            /\ resumeLoop(b, rec, fileArray, 1, images, capacityNotes(Len(images), Len(files)))

\* the change of #bulk-upload-premium, or a drop of files on the page, as
\* call b
filesChosenWith(b, files) ==
    /\ ~unloaded
    /\ UNCHANGED <<hybrid, laptopForm, api, priceSlider, slotGallery>>
    /\ batch[b].pc = "idle"
    /\ handleFiles(b, files)
    /\ filesGiven' = Len(files)
    /\ UNCHANGED <<imagesToDelete, nextTempId, currentCoverSlot, objectUrls,
                   revoked, altTimers, submitted, unloaded>>

FileLists == UNION { { MkFiles([p \in 1..n |-> p], attrs) : attrs \in FileAttrs(n) } : n \in 1..MaxFiles }

filesChosen(b) == \E files \in FileLists : filesChosenWith(b, files)

\* while no other call is in flight
filesChosenAlone == noCallInFlight /\ filesChosen(1)

\* while another call may be in flight
filesChosenOverlapping ==
    \E b \in BatchIds : (\A c \in BatchIds : c < b => batch[c].pc # "idle") /\ filesChosen(b)

\* img.onload / img.onerror of the file call b waits for.  The files up to
\* that one have been read: it passed the checks before decoding.
\* maxId: the last temporary id the session hands out; imageKinds, fileKinds:
\* what the decoded image and the files of the call can be
imageDecodedOf(maxId, imageKinds, fileKinds) ==
    /\ ~unloaded
    /\ UNCHANGED <<hybrid, laptopForm, api, priceSlider, slotGallery>>
    /\ \E b \in BatchIds :
          /\ batch[b].pc = "decoding"
          /\ \E image \in imageKinds, attrs \in [1..Len(batch[b].fileArray) -> fileKinds] :
                LET rec == batch[b]
                    fileArray == MkFiles(rec.fileArray, attrs)
                    file == fileArray[rec.i]
                    result == validateImageFile(file, image)
                    st == [images |-> images, nextTempId |-> nextTempId,
                           currentCoverSlot |-> currentCoverSlot, objectUrls |-> objectUrls]
                    st2 == IF result = "ok" THEN addNewImage(st, file) ELSE st
                    rec2 == IF result = "ok" THEN [rec EXCEPT !.successCount = @ + 1] ELSE rec
                    notes == IF result = "ok" THEN <<>> ELSE <<Note("error", result)>>
                IN  /\ \A p \in 1..rec.i : rejectedBeforeDecode(fileArray[p]) = "ok"
                    /\ result = "ok" => nextTempId <= maxId
                    /\ nextTempId' = st2.nextTempId
                    /\ currentCoverSlot' = st2.currentCoverSlot
                    /\ objectUrls' = st2.objectUrls
                    /\ resumeLoop(b, rec2, fileArray, rec.i + 1, st2.images, notes)
    /\ filesGiven' = 0
    /\ UNCHANGED <<imagesToDelete, revoked, altTimers, submitted, unloaded>>

imageDecoded == imageDecodedOf(MaxTempId, ImageKinds, FileKinds)

(***************************************************************************)
(* Dragging a card onto a card: dragStart(e, index) keeps index in         *)
(* this.draggedIndex, drop(e, targetIndex) reads it and ends with          *)
(* dragEnd(), which clears it.  While the card is held no other pointer    *)
(* event is dispatched, and an imageDecoded in between leaves every index  *)
(* below the number of cards valid, so the gesture is one step.            *)
(***************************************************************************)
\* a drop that exchanges the two cards
moveImageSwap(imgs, from, to) ==
    LET at == Min(to, Len(imgs) - 1)
        moved == [imgs EXCEPT ![from + 1] = imgs[at + 1], ![at + 1] = imgs[from + 1]]
    IN  [k \in 1..Len(moved) |-> [moved[k] EXCEPT !.slot = k]]

\* a drop that leaves the slots as they were
moveImageKeepSlots(imgs, from, to) ==
    spliceIn(spliceOut(imgs, from), to, imgs[from + 1])

\* a drop that leaves the cover flag with the position
moveImageCoverStays(imgs, from, to) ==
    LET moved == spliceIn(spliceOut(imgs, from), to, imgs[from + 1])
    IN  [k \in 1..Len(moved) |-> [moved[k] EXCEPT !.slot = k, !.isCover = imgs[k].isCover]]

\* images after the two splices and the renumbering of drop
moveImage(imgs, from, to) ==
    LET movedImage == imgs[from + 1]
        moved == spliceIn(spliceOut(imgs, from), to, movedImage)
    IN  [k \in 1..Len(moved) |-> [moved[k] EXCEPT !.slot = k]]

\* the drop listener of card targetIndex with this.draggedIndex = draggedIndex,
\* then the drop listener the event bubbles to (handleDrop or handleBodyDrop),
\* which calls handleFiles with the empty FileList of a card drag
drop(draggedIndex, targetIndex) ==
    IF draggedIndex # targetIndex THEN
        LET reordered == moveImage(images, draggedIndex, targetIndex)
            at == Min(targetIndex, Len(images) - 1) + 1
        IN  /\ currentCoverSlot' = IF images[draggedIndex + 1].isCover
                                   THEN reordered[at].slot ELSE currentCoverSlot
            /\ render(reordered, imagesToDelete)
            /\ notified' = <<Note("success", "Imagenes reordenadas correctamente")>>
                           \o capacityNotes(Len(images), 0)
    ELSE
        /\ notified' = capacityNotes(Len(images), 0)
        /\ UNCHANGED <<images, cards, inputs, deleteInput, currentCoverSlot>>

\* card draggedIndex dragged onto card targetIndex
cardDropOn(draggedIndex, targetIndex) ==
    /\ ~unloaded
    /\ UNCHANGED <<hybrid, laptopForm, api, priceSlider, slotGallery>>
    /\ draggedIndex \in 0..(cards - 1)
    /\ targetIndex \in 0..(cards - 1)
    /\ drop(draggedIndex, targetIndex)
    /\ filesGiven' = 0
    /\ UNCHANGED <<imagesToDelete, nextTempId, objectUrls, batch, revoked, altTimers,
                   submitted, unloaded>>

cardDrop ==
    \E draggedIndex \in 0..(cards - 1), targetIndex \in 0..(cards - 1) :
        cardDropOn(draggedIndex, targetIndex)

(***************************************************************************)
(* cleanup, the beforeunload listener: the page is left                    *)
(***************************************************************************)
\* a cleanup that forgets the URLs without revoking them
cleanupWithoutRevoke ==
    /\ ~unloaded
    /\ UNCHANGED <<hybrid, laptopForm, api, priceSlider, slotGallery>>
    /\ objectUrls' = {}
    /\ unloaded' = TRUE
    /\ notified' = <<>>
    /\ filesGiven' = 0
    /\ UNCHANGED <<images, imagesToDelete, nextTempId, currentCoverSlot, cards, inputs,
                   deleteInput, batch, revoked, altTimers, submitted>>

cleanup ==
    /\ ~unloaded
    /\ UNCHANGED <<hybrid, laptopForm, api, priceSlider, slotGallery>>
    /\ revoked' = [u \in BlobUrls |-> IF u \in objectUrls THEN revoked[u] + 1 ELSE revoked[u]]
    /\ objectUrls' = {}
    /\ unloaded' = TRUE
    /\ notified' = <<>>
    /\ filesGiven' = 0
    /\ UNCHANGED <<images, imagesToDelete, nextTempId, currentCoverSlot, cards, inputs,
                   deleteInput, batch, altTimers, submitted>>

(***************************************************************************)
(* The alt-text editor of a card: its input listener restarts the card's   *)
(* 500 ms timer, whose callback calls updateAltText with the index the     *)
(* card was made with.  A render replaces the cards; it clears no timer.   *)
(* The text typed into the editor of an entry is written as the text that  *)
(* names the entry.                                                        *)
(***************************************************************************)
TypedFor(id) == <<"typed", id[1], id[2]>>

\* an updateAltText that puts the entries in slot order, as a render does
updateAltTextSorting(index, newAlt) ==
    IF index >= 0 /\ index < Len(images) THEN
        LET edited == sortBySlot([images EXCEPT ![index + 1].alt = newAlt])
        IN  /\ images' = edited
            /\ inputs' = syncFormInputs(inputs, edited)
            /\ deleteInput' = syncDeletedImages(imagesToDelete)
    ELSE
        UNCHANGED <<images, inputs, deleteInput>>

updateAltText(index, newAlt) ==
    IF index >= 0 /\ index < Len(images) THEN
        LET edited == [images EXCEPT ![index + 1].alt = newAlt]
        IN  /\ images' = edited
            /\ inputs' = syncFormInputs(inputs, edited)
            /\ deleteInput' = syncDeletedImages(imagesToDelete)
    ELSE
        UNCHANGED <<images, inputs, deleteInput>>

\* the input listener of the editor of card index
altTyped ==
    /\ ~unloaded
    /\ UNCHANGED <<hybrid, laptopForm, api, priceSlider, slotGallery>>
    /\ \E index \in 0..(cards - 1) :
          LET timer == [index |-> index, value |-> TypedFor(images[index + 1].id)]
          IN  /\ Cardinality(altTimers \cup {timer}) <= MaxTimers
              /\ altTimers' = altTimers \cup {timer}
    /\ notified' = <<>>
    /\ filesGiven' = 0
    /\ UNCHANGED <<images, imagesToDelete, nextTempId, currentCoverSlot, objectUrls, cards,
                   inputs, deleteInput, batch, revoked, submitted, unloaded>>

\* the callback of a pending timer
altTimeout ==
    /\ ~unloaded
    /\ UNCHANGED <<hybrid, laptopForm, api, priceSlider, slotGallery>>
    /\ \E timer \in altTimers :
          /\ updateAltText(timer.index, timer.value)
          /\ altTimers' = altTimers \ {timer}
    /\ notified' = <<>>
    /\ filesGiven' = 0
    /\ UNCHANGED <<imagesToDelete, nextTempId, currentCoverSlot, objectUrls, cards, batch,
                   revoked, submitted, unloaded>>

(***************************************************************************)
(* The form is submitted: the browser sends the inputs as they are and     *)
(* leaves the page.  The gallery listens for beforeunload only.            *)
(***************************************************************************)
formSubmit ==
    /\ ~unloaded
    /\ UNCHANGED <<hybrid, laptopForm, api, priceSlider, slotGallery>>
    /\ submitted' = TRUE
    /\ revoked' = [u \in BlobUrls |-> IF u \in objectUrls THEN revoked[u] + 1 ELSE revoked[u]]
    /\ objectUrls' = {}
    /\ unloaded' = TRUE
    /\ notified' = <<>>
    /\ filesGiven' = 0
    /\ UNCHANGED <<images, imagesToDelete, nextTempId, currentCoverSlot, cards, inputs,
                   deleteInput, batch, altTimers>>

(***************************************************************************)
(* The methods as another script calls them on window.LaptopGalleryHybrid, *)
(* with any index.  A direct call of drop is drop(e, targetIndex) with     *)
(* this.draggedIndex = draggedIndex and no event that bubbles.             *)
(***************************************************************************)
Indices == -1..maxImages

\* the start a.splice(index, ...) works with
spliceStart(a, index) == IF index < 0 THEN Max(Len(a) + index, 0) ELSE Min(index, Len(a))

setAsCoverCalledWith(index) ==
    /\ ~unloaded
    /\ UNCHANGED <<hybrid, laptopForm, api, priceSlider, slotGallery>>
    /\ setAsCover(index)
    /\ filesGiven' = 0
    /\ UNCHANGED <<imagesToDelete, nextTempId, objectUrls, batch, revoked, altTimers,
                   submitted, unloaded>>

setAsCoverCalled == \E index \in Indices : setAsCoverCalledWith(index)

deleteImageCalledWith(index, confirmed) ==
    /\ ~unloaded
    /\ UNCHANGED <<hybrid, laptopForm, api, priceSlider, slotGallery>>
    /\ deleteImage(index, confirmed)
    /\ filesGiven' = 0
    /\ UNCHANGED <<nextTempId, batch, altTimers, submitted, unloaded>>

deleteImageCalled ==
    \E index \in Indices, confirmed \in BOOLEAN : deleteImageCalledWith(index, confirmed)

\* the text a caller passes
CalledText == <<"typed", "call", 0>>

updateAltTextCalledWith(index) ==
    /\ ~unloaded
    /\ UNCHANGED <<hybrid, laptopForm, api, priceSlider, slotGallery>>
    /\ updateAltText(index, CalledText)
    /\ notified' = <<>>
    /\ filesGiven' = 0
    /\ UNCHANGED <<imagesToDelete, nextTempId, currentCoverSlot, objectUrls, cards, batch,
                   revoked, altTimers, submitted, unloaded>>

updateAltTextCalled == \E index \in Indices : updateAltTextCalledWith(index)

\* drop with any two indices of which the first one names an entry
\* (draggedIndex from -images.length to images.length - 1): the splices take
\* the entry out and put it in where Array.prototype.splice puts it
dropCall(draggedIndex, targetIndex) ==
    IF draggedIndex # targetIndex THEN
        LET from == spliceStart(images, draggedIndex)
            movedImage == images[from + 1]
            rest == spliceOut(images, from)
            at == spliceStart(rest, targetIndex)
            moved == SubSeq(rest, 1, at) \o <<movedImage>> \o SubSeq(rest, at + 1, Len(rest))
            reordered == [k \in 1..Len(moved) |-> [moved[k] EXCEPT !.slot = k]]
        IN  /\ currentCoverSlot' = IF movedImage.isCover THEN at + 1 ELSE currentCoverSlot
            /\ render(reordered, imagesToDelete)
            /\ notified' = <<Note("success", "Imagenes reordenadas correctamente")>>
    ELSE
        /\ notified' = <<>>
        /\ UNCHANGED <<images, cards, inputs, deleteInput, currentCoverSlot>>

dropCalledWith(draggedIndex, targetIndex) ==
    /\ ~unloaded
    /\ UNCHANGED <<hybrid, laptopForm, api, priceSlider, slotGallery>>
    /\ draggedIndex \in (0 - Len(images))..(Len(images) - 1)
    /\ dropCall(draggedIndex, targetIndex)
    /\ filesGiven' = 0
    /\ UNCHANGED <<imagesToDelete, nextTempId, objectUrls, batch, revoked, altTimers,
                   submitted, unloaded>>

dropCalled ==
    \E draggedIndex \in Indices, targetIndex \in Indices :
        dropCalledWith(draggedIndex, targetIndex)

(***************************************************************************)
(* Spec: the handlers of the page, with at most one handleFiles call in    *)
(* flight; every other handler may run while that call waits.              *)
(***************************************************************************)
Next ==
    \/ clickSetCover
    \/ coverSelectorChange
    \/ clickDelete
    \/ filesChosenAlone
    \/ imageDecoded
    \/ cardDrop
    \/ cleanup

Spec == Init /\ [][Next]_vars

(***************************************************************************)
(* SpecInTurn: no handler runs while a handleFiles call waits; every call  *)
(* is finished before the next event is handled.                           *)
(***************************************************************************)
NextInTurn ==
    \/ noCallInFlight /\ clickSetCover
    \/ noCallInFlight /\ coverSelectorChange
    \/ noCallInFlight /\ clickDelete
    \/ filesChosenAlone
    \/ imageDecoded
    \/ noCallInFlight /\ cardDrop
    \/ noCallInFlight /\ cleanup

SpecInTurn == Init /\ [][NextInTurn]_vars

(***************************************************************************)
(* SpecOverlap: a second handleFiles call may start while the first one    *)
(* waits; the clicks on the cards run in between.                          *)
(***************************************************************************)
NextOverlap ==
    \/ clickSetCover
    \/ clickDelete
    \/ filesChosenOverlapping
    \/ imageDecoded

SpecOverlap == Init /\ [][NextOverlap]_vars

(***************************************************************************)
(* SpecStored: the handlers of the cards on an edit page.                  *)
(***************************************************************************)
NextStored ==
    \/ clickSetCover
    \/ clickDelete
    \/ cardDrop
    \/ cleanup

SpecStored == InitStored /\ [][NextStored]_vars

(***************************************************************************)
(* SpecCalls: setAsCover and updateAltText called with any index, between  *)
(* and during the handleFiles calls.                                       *)
(***************************************************************************)
NextCalls ==
    \/ setAsCoverCalled
    \/ updateAltTextCalled
    \/ filesChosenAlone
    \/ imageDecoded

SpecCalls == Init /\ [][NextCalls]_vars

(***************************************************************************)
(* SpecMoves: drop and deleteImage called with any index.                  *)
(***************************************************************************)
NextMoves ==
    \/ dropCalled
    \/ deleteImageCalled
    \/ setAsCoverCalled

SpecMoves == Init /\ [][NextMoves]_vars


(***************************************************************************)
(* SpecSlots: on a page served without images, lists of maxImages valid    *)
(* files are chosen, a second one while the first is being decoded, and    *)
(* cards are deleted.  The temporary ids go up to 2 * maxImages.           *)
(***************************************************************************)
FullFileList ==
    MkFiles([p \in 1..maxImages |-> p],
            [p \in 1..maxImages |-> [type |-> "image/jpeg", size |-> 1024 * 1024]])

fullListChosen ==
    \E b \in BatchIds :
        /\ \A c \in BatchIds : c < b => batch[c].pc # "idle"
        /\ filesChosenWith(b, FullFileList)

\* every file of a full list is a JPEG of 1 MB that decodes to 800 x 600
fullListDecoded ==
    imageDecodedOf(2 * maxImages, {[decodes |-> TRUE, width |-> 800, height |-> 600]},
                   {[type |-> "image/jpeg", size |-> 1024 * 1024]})

\* the click on a trash button, confirmed
clickDeleteConfirmed == \E index \in 0..(cards - 1) : clickDeleteOn(index, TRUE)

InitSlots == InitFrom([i \in Slots |-> EmptySlot]) /\ hybrid = LG_Declared /\ laptopForm = FS_NoForm /\ api = NotOnPage /\ priceSlider = NotOnPage /\ slotGallery = NotOnPage

NextSlots ==
    \/ fullListChosen
    \/ fullListDecoded
    \/ clickDeleteConfirmed

SpecSlots == InitSlots /\ [][NextSlots]_vars

(***************************************************************************)
(* SpecEdit: the alt-text editors and the submission of the form, with the *)
(* handlers that re-render the cards in between.                           *)
(***************************************************************************)
NextEdit ==
    \/ altTyped
    \/ altTimeout
    \/ clickSetCover
    \/ clickDelete
    \/ cardDrop
    \/ formSubmit

SpecEdit == Init /\ [][NextEdit]_vars


(***************************************************************************)
(* laptop_gallery.js: LaptopGalleryHybrid.  hybrid holds this.images and   *)
(* this.imagesToDelete and, of the page, the number of cards in            *)
(* #images-container-premium, whether the placeholder is shown, the text   *)
(* of #image-counter-premium (-1: as served), the values of the inputs     *)
(* image_i_alt and of #images_to_delete (<<>>: the input does not exist),  *)
(* the notifications of the last handler, and whether the last handler     *)
(* ended in an uncaught TypeError.                                         *)
(***************************************************************************)
\* one iteration of the for loop of loadExistingImages
LG_loadSlot(input, i, st) ==
    IF Len(input.files) > 0 THEN
        [images |-> Append(st.images,
                           [id |-> <<"temp", st.nextTempId>>, type |-> "new",
                            alt |-> IF input.alt # <<>> THEN input.alt ELSE <<"Imagen", i>>,
                            isCover |-> (i = 1), slot |-> i]),
         nextTempId |-> st.nextTempId + 1]
    ELSE IF input.dataImageUrl # <<>> THEN
        [st EXCEPT !.images =
            Append(st.images,
                   [id |-> IF input.dataImageId # <<>> THEN input.dataImageId ELSE <<"slot", i>>,
                    type |-> "existing",
                    alt |-> IF input.alt # <<>> THEN input.alt ELSE <<"Imagen", i>>,
                    isCover |-> (input.dataIsCover = "true"), slot |-> i])]
    ELSE st

RECURSIVE LG_loadSlots(_, _, _)
LG_loadSlots(form, i, st) ==
    IF i > maxImages THEN st ELSE LG_loadSlots(form, i + 1, LG_loadSlot(form[i], i, st))

LG_loadExistingImages(form) ==
    LET st == LG_loadSlots(form, 1, [images |-> <<>>, nextTempId |-> 1])
    IN  IF Len(st.images) > 0 /\ ~hasCover(st.images)
        THEN [st.images EXCEPT ![1].isCover = TRUE]
        ELSE st.images

\* syncFormInputs: the second loop sets the slot of entry index to index + 1
\* (the page has the inputs image_1 .. image_maxImages) and writes its alt
\* text to image_slot_alt, after the first loop has emptied every alt input
LG_syncSlots(imgs) == [k \in 1..Len(imgs) |-> [imgs[k] EXCEPT !.slot = k]]

LG_syncAltInputs(imgs) == [i \in Slots |-> IF i <= Len(imgs) THEN imgs[i].alt ELSE <<>>]

\* render, called with this.images = imgs and this.imagesToDelete = toDelete.
\* The container is emptied first.  The object has no showEmptyState, so the
\* call of the empty branch is a TypeError that ends render and its caller.
LG_render(h, imgs, toDelete) ==
    IF Len(imgs) = 0 THEN
        [h EXCEPT !.images = <<>>, !.imagesToDelete = toDelete, !.cards = 0,
                  !.placeholder = FALSE, !.thrown = TRUE]
    ELSE
        LET sorted == sortBySlot(imgs)
        IN  [h EXCEPT !.images = LG_syncSlots(sorted), !.imagesToDelete = toDelete,
                      !.cards = Len(sorted), !.placeholder = FALSE, !.counter = Len(sorted),
                      !.altInputs = LG_syncAltInputs(sorted),
                      !.deleteInput = stringify(toDelete)]

\* what the handler that ran render shows afterwards, unless render threw
LG_notify(h, message) ==
    IF h.thrown THEN h ELSE [h EXCEPT !.notified = <<Note("success", message)>>]

\* init() on the page served with form
LG_init(form) ==
    LG_render([LG_Declared EXCEPT !.altInputs = [i \in Slots |-> form[i].alt]],
              LG_loadExistingImages(form), <<>>)

\* the state a handler starts from
LG_handling == [hybrid EXCEPT !.notified = <<>>, !.thrown = FALSE]

LG_setAsCover(index) ==
    IF index < 0 \/ index >= Len(hybrid.images) THEN LG_handling
    ELSE LG_notify(LG_render(LG_handling,
                             [k \in 1..Len(hybrid.images) |->
                                 [hybrid.images[k] EXCEPT !.isCover = (k = index + 1)]],
                             hybrid.imagesToDelete),
                   "Portada actualizada")

LG_deleteImage(index, confirmed) ==
    IF index < 0 \/ index >= Len(hybrid.images) \/ ~confirmed THEN LG_handling
    ELSE LET imageData == hybrid.images[index + 1]
             toDelete == IF imageData.type = "existing"
                         THEN Append(hybrid.imagesToDelete, imageData.id)
                         ELSE hybrid.imagesToDelete
             rest == spliceOut(hybrid.images, index)
             promoted == IF imageData.isCover /\ Len(rest) > 0
                         THEN [rest EXCEPT ![1].isCover = TRUE] ELSE rest
         IN  LG_notify(LG_render(LG_handling, promoted, toDelete), "Imagen eliminada")

\* drop(e, targetIndex) with this.draggedIndex = draggedIndex: the two
\* splices, then render, which sorts by the slots the entries had
LG_drop(draggedIndex, targetIndex) ==
    IF draggedIndex # targetIndex THEN
        LET movedImage == hybrid.images[draggedIndex + 1]
            rest == spliceOut(hybrid.images, draggedIndex)
            moved == SubSeq(rest, 1, targetIndex) \o <<movedImage>>
                     \o SubSeq(rest, targetIndex + 1, Len(rest))
        IN  LG_notify(LG_render(LG_handling, moved, hybrid.imagesToDelete),
                      "Imagenes reordenadas")
    ELSE LG_handling

\* handleFiles(files) with an empty FileList, up to its first await
LG_handleNoFiles(h) ==
    IF maxImages - Len(h.images) <= 0
    THEN [h EXCEPT !.notified = Append(@, Note("error", "Ya tienes el maximo de imagenes"))]
    ELSE h

\* the gallery of part_000 is not on this page
LG_page == UNCHANGED <<images, imagesToDelete, nextTempId, currentCoverSlot, objectUrls,
                       cards, inputs, deleteInput, batch, revoked, notified, filesGiven,
                       altTimers, submitted, unloaded, laptopForm, api, priceSlider, slotGallery>>

\* the click on the crown button of card index
LG_clickSetCoverOn(index) ==
    /\ index \in 0..(hybrid.cards - 1)
    /\ hybrid' = LG_setAsCover(index)
    /\ LG_page

LG_clickSetCover == \E index \in 0..(maxImages - 1) : LG_clickSetCoverOn(index)

\* the click on the trash button of card index, confirm() answered with confirmed
LG_clickDeleteOn(index, confirmed) ==
    /\ index \in 0..(hybrid.cards - 1)
    /\ hybrid' = LG_deleteImage(index, confirmed)
    /\ LG_page

LG_clickDelete ==
    \E index \in 0..(maxImages - 1), confirmed \in BOOLEAN : LG_clickDeleteOn(index, confirmed)

\* card draggedIndex dragged and dropped on card targetIndex: the drop
\* listener of the card, then the one of the upload area or of the body,
\* which hands the empty FileList of the drag to handleFiles
LG_cardDropOn(draggedIndex, targetIndex) ==
    /\ draggedIndex \in 0..(hybrid.cards - 1)
    /\ targetIndex \in 0..(hybrid.cards - 1)
    /\ hybrid' = LG_handleNoFiles(LG_drop(draggedIndex, targetIndex))
    /\ LG_page

LG_cardDrop ==
    \E draggedIndex \in 0..(maxImages - 1), targetIndex \in 0..(maxImages - 1) :
        LG_cardDropOn(draggedIndex, targetIndex)

\* the page of laptop_gallery.js, served with any form
NoImagesForm == [i \in Slots |-> EmptySlot]

InitHybrid ==
    /\ InitFrom(NoImagesForm)
    /\ \E form \in StoredForms : hybrid = LG_init(form)
    /\ laptopForm = FS_NoForm /\ api = NotOnPage /\ priceSlider = NotOnPage /\ slotGallery = NotOnPage

NextHybrid ==
    \/ LG_clickSetCover
    \/ LG_clickDelete
    \/ LG_cardDrop

SpecHybrid == InitHybrid /\ [][NextHybrid]_vars


(***************************************************************************)
(* The listeners of the laptop form.                                       *)
(***************************************************************************)
\* the gallery of part_000 and the one of laptop_gallery.js are left alone
FS_page == UNCHANGED <<images, imagesToDelete, nextTempId, currentCoverSlot, objectUrls,
                       cards, inputs, deleteInput, batch, revoked, notified, filesGiven,
                       altTimers, submitted, unloaded, hybrid, api, priceSlider, slotGallery>>

\* the state a handler starts from
FS_handling == [laptopForm EXCEPT !.alerted = <<>>, !.thrown = FALSE]

\* the user picks value in the select f (or clears it): select2 sets the
\* value and triggers change
userSelectsIn(f, value) ==
    /\ laptopForm.sent = <<>>
    /\ laptopForm.fields[f] # value
    /\ laptopForm' = [FS_handling EXCEPT !.fields = changeField(laptopForm.fields, f, value)]
    /\ FS_page

userSelects == \E f \in FieldNames, value \in FieldValues : userSelectsIn(f, value)

\* the submit event of #laptop-form, fired by an enabled submit button
submitEvent ==
    /\ laptopForm.sent = <<>>
    /\ ~laptopForm.disabled
    /\ laptopForm' =
          IF laptopForm.isSubmitting THEN nativeSubmit(FS_handling)
          ELSE IF displayNameEmpty(laptopForm.fields, laptopForm.category)
          THEN [FS_handling EXCEPT !.alerted = <<"Por favor selecciona al menos Marca y Modelo">>]
          ELSE LET newItemsToCreate == collectNew(laptopForm.fields, 1)
                   s == [FS_handling EXCEPT !.disabled = TRUE, !.label = "Guardando...",
                                            !.originalText = originalTextOf(laptopForm.label),
                                            !.failed = FALSE,
                                            !.posted = <<>>, !.succeeded = <<>>,
                                            !.heldNew = {f \in FieldNames :
                                                           startsWithNew(laptopForm.fields[f])}]
               IN  IF Len(newItemsToCreate) = 0
                   THEN nativeSubmit([s EXCEPT !.isSubmitting = TRUE])
                   ELSE createNextItem(s, newItemsToCreate, 0)
    /\ FS_page

\* what a creation endpoint can answer with on success: the id of the row,
\* or a body without id
Responses == {RowId(2), NoValue}

\* the success callback of the POST in flight.  val(response.id) selects the
\* option with that value; when the select has no such option it is left
\* with nothing selected (optionThere)
postSucceedsWith(response, optionThere) ==
    /\ laptopForm.chain.awaiting
    /\ LET chain == laptopForm.chain
           field == chain.items[chain.index + 1]
           s == [FS_handling EXCEPT !.succeeded = Append(@, field)]
           updated == IF response # NoValue
                      THEN [s EXCEPT !.fields = changeField(s.fields, field,
                                                   IF optionThere THEN response ELSE NoValue)]
                      ELSE s
       IN  laptopForm' = createNextItem(updated, chain.items, chain.index + 1)
    /\ FS_page

postSucceeds ==
    \E response \in Responses, optionThere \in BOOLEAN : postSucceedsWith(response, optionThere)

\* an error callback that goes on with the next item
postFailsGoingOn ==
    /\ laptopForm.chain.awaiting
    /\ laptopForm' =
          createNextItem([FS_handling EXCEPT !.alerted = <<"Error al crear">>,
                                             !.disabled = FALSE,
                                             !.label = laptopForm.originalText,
                                             !.isSubmitting = FALSE, !.failed = TRUE],
                         laptopForm.chain.items, laptopForm.chain.index + 1)
    /\ FS_page

\* the error callback of the POST in flight
postFails ==
    /\ laptopForm.chain.awaiting
    /\ laptopForm' = [FS_handling EXCEPT !.alerted = <<"Error al crear">>,
                                         !.disabled = FALSE,
                                         !.label = laptopForm.originalText,
                                         !.isSubmitting = FALSE, !.failed = TRUE,
                                         !.chain = NoChain]
    /\ FS_page

InitSubmit ==
    /\ slotGallery = NotOnPage
    /\ priceSlider = NotOnPage
    /\ api = NotOnPage
    /\ InitFrom(NoImagesForm)
    /\ hybrid = LG_Declared
    /\ \E fields \in [FieldNames -> FieldValues], category \in BOOLEAN,
          label \in ServedLabels :
          laptopForm = FS_Loaded(fields, category, label)

NextSubmit ==
    \/ userSelects
    \/ submitEvent
    \/ postSucceeds
    \/ postFails

SpecSubmit == InitSubmit /\ [][NextSubmit]_vars

\* $.ajax calls one of its two callbacks for every request: a POST in flight
\* is answered in the end
postAnswered == postSucceeds \/ postFails

SpecAnswered == InitSubmit /\ [][NextSubmit]_vars /\ WF_vars(postAnswered)

(***************************************************************************)
(* ExpensesAPI.retryRequest.                                               *)
(***************************************************************************)
\* the galleries and the form are left alone
API_page == UNCHANGED <<images, imagesToDelete, nextTempId, currentCoverSlot, objectUrls,
                        cards, inputs, deleteInput, batch, revoked, notified, filesGiven,
                        altTimers, submitted, unloaded, hybrid, laptopForm, priceSlider, slotGallery>>

\* retryRequest(endpoint, options, maxRetries): up to the first await
retryRequestCalled ==
    /\ api.pc = "idle"
    /\ \E maxRetries \in 1..MaxRetries :
          api' = [API_New EXCEPT !.pc = "calling", !.maxRetries = maxRetries, !.attempt = 1]
    /\ API_page

\* a catch block that sleeps after the last attempt too
requestSettlesSleepingOn(outcome) ==
    /\ api.pc = "calling"
    /\ LET called == [api EXCEPT !.calls = Append(@, outcome)]
           message == requestError(outcome)
       IN  api' =
             IF outcome.kind = "ok" THEN [called EXCEPT !.pc = "returned"]
             ELSE IF includes(message, <<"4">>) /\ ~includes(message, <<"4", "2", "9">>)
             THEN [called EXCEPT !.pc = "thrown", !.lastError = message,
                                 !.thrownError = message]
             ELSE IF api.attempt <= api.maxRetries
             THEN [called EXCEPT !.pc = "sleeping", !.lastError = message]
             ELSE [called EXCEPT !.pc = "thrown", !.lastError = message,
                                 !.thrownError = message]
    /\ API_page

\* request settles: the rest of the try, or the catch block, up to the next await
requestSettlesWith(outcome) ==
    /\ api.pc = "calling"
    /\ LET called == [api EXCEPT !.calls = Append(@, outcome)]
           message == requestError(outcome)
       IN  api' =
             IF outcome.kind = "ok" THEN [called EXCEPT !.pc = "returned"]
             ELSE IF includes(message, <<"4">>) /\ ~includes(message, <<"4", "2", "9">>)
             THEN [called EXCEPT !.pc = "thrown", !.lastError = message,
                                 !.thrownError = message]
             ELSE IF api.attempt < api.maxRetries
             THEN [called EXCEPT !.pc = "sleeping", !.lastError = message]
             ELSE [called EXCEPT !.pc = "thrown", !.lastError = message,
                                 !.thrownError = message]
    /\ API_page

requestSettles == \E outcome \in Outcomes : requestSettlesWith(outcome)

\* the timer of the delay fires: the next turn of the loop
delayOver ==
    /\ api.pc = "sleeping"
    /\ api' = [api EXCEPT !.pc = "calling", !.attempt = @ + 1]
    /\ API_page

\* a minute passes
tick ==
    /\ api.clock < MaxClock
    /\ api' = [api EXCEPT !.clock = @ + 1]
    /\ API_page

\* getDashboardData() / getCategories(): up to the return of the cached
\* value or to the await
getterCalledFor(key) ==
    /\ api.getter[key].pc = "idle"
    /\ LET now == api.clock
       IN  api' =
             IF /\ api.cache[key] # Null
                /\ api.cache.lastUpdated # Null
                /\ now - api.cache.lastUpdated[1] < maxAge
             THEN [api EXCEPT !.returned = <<[key |-> key, cached |-> TRUE,
                                              age |-> api.clock - api.cache[key][1]]>>]
             ELSE [api EXCEPT !.returned = <<>>,
                              !.getter[key] = [pc |-> "awaiting", now |-> now]]
    /\ API_page

getterCalled == \E key \in CachedKeys : getterCalledFor(key)

\* the request of a cached getter answers: the rest of the method
getterFetchedFor(key) ==
    /\ api.getter[key].pc = "awaiting"
    /\ api' = [api EXCEPT !.cache[key] = <<api.clock>>,
                          !.cache.lastUpdated = <<api.getter[key].now>>,
                          !.getter[key] = NotCalled,
                          !.returned = <<[key |-> key, cached |-> FALSE, age |-> 0]>>]
    /\ API_page

getterFetched == \E key \in CachedKeys : getterFetchedFor(key)

\* the request of a cached getter throws, and so does the getter
getterFailedFor(key) ==
    /\ api.getter[key].pc = "awaiting"
    /\ api' = [api EXCEPT !.getter[key] = NotCalled, !.returned = <<>>]
    /\ API_page

getterFailed == \E key \in CachedKeys : getterFailedFor(key)

\* getExpenses(filters): up to the await
getExpensesCalled ==
    /\ api.getExpenses = "idle"
    /\ api' = [api EXCEPT !.getExpenses = "awaiting", !.returned = <<>>]
    /\ API_page

\* its request answers: the expenses are cached and stamped
getExpensesFetched ==
    /\ api.getExpenses = "awaiting"
    /\ api' = [api EXCEPT !.getExpenses = "idle", !.returned = <<>>,
                          !.cache.lastUpdated = <<api.clock>>]
    /\ API_page

\* its request throws
getExpensesFailed ==
    /\ api.getExpenses = "awaiting"
    /\ api' = [api EXCEPT !.getExpenses = "idle", !.returned = <<>>]
    /\ API_page

\* updateCache(cacheKey, data) with data just obtained
updateCacheOf(cacheKey) ==
    /\ LET stored == IF cacheKey \in CachedKeys
                     THEN [api EXCEPT !.cache[cacheKey] = <<api.clock>>]
                     ELSE api
       IN  api' = [stored EXCEPT !.cache.lastUpdated = <<api.clock>>, !.returned = <<>>]
    /\ API_page

updateCache == \E cacheKey \in CachedKeys \cup {"expenses"} : updateCacheOf(cacheKey)

InitCache == InitFrom(NoImagesForm) /\ hybrid = LG_Declared /\ laptopForm = FS_NoForm /\ api = API_New /\ priceSlider = NotOnPage /\ slotGallery = NotOnPage

NextCache ==
    \/ tick
    \/ getterCalled
    \/ getterFetched
    \/ getterFailed
    \/ getExpensesCalled
    \/ getExpensesFetched
    \/ getExpensesFailed
    \/ updateCache

SpecCache == InitCache /\ [][NextCache]_vars

InitRetry == InitFrom(NoImagesForm) /\ hybrid = LG_Declared /\ laptopForm = FS_NoForm /\ api = API_New /\ priceSlider = NotOnPage /\ slotGallery = NotOnPage

NextRetry ==
    \/ retryRequestCalled
    \/ requestSettles
    \/ delayOver

\* fetch settles and timers fire
SpecRetry == InitRetry /\ [][NextRetry]_vars /\ WF_vars(requestSettles) /\ WF_vars(delayOver)

(***************************************************************************)
(* The listeners of the PriceSlider.                                       *)
(***************************************************************************)
\* the galleries, the form and the API client are left alone
PS_page == UNCHANGED <<images, imagesToDelete, nextTempId, currentCoverSlot, objectUrls,
                       cards, inputs, deleteInput, batch, revoked, notified, filesGiven,
                       altTimers, submitted, unloaded, hybrid, laptopForm, api, slotGallery>>

\* new PriceSlider(options) on a page that has the five elements; a price
\* the options leave out is 0 here
constructWith(dbMinPrice, dbMaxPrice, currentMinPrice, currentMaxPrice) ==
    /\ ~priceSlider.built
    /\ LET dbMin == orElse(dbMinPrice, 0)
           dbMax == orElse(dbMaxPrice, 10000)
           s == [PS_None EXCEPT !.built = TRUE, !.dbMinPrice = dbMin, !.dbMaxPrice = dbMax]
       IN  priceSlider' = updateSlider(s, orElse(currentMinPrice, dbMin),
                                          orElse(currentMaxPrice, dbMax))
    /\ PS_page

\* the prices of the database, and the filter of the request (0: none)
construct ==
    \E dbMinPrice \in 0..(MaxPrice - 1), currentMinPrice, currentMaxPrice \in 0..(MaxPrice + 1) :
        \E dbMaxPrice \in (dbMinPrice + 1)..MaxPrice :
            constructWith(dbMinPrice, dbMaxPrice, currentMinPrice, currentMaxPrice)

\* mousedown or touchstart on a handle
grab ==
    /\ priceSlider.built
    /\ \E isMin \in BOOLEAN :
          /\ IF isMin THEN ~priceSlider.isDraggingMin ELSE ~priceSlider.isDraggingMax
          /\ priceSlider' = IF isMin THEN [priceSlider EXCEPT !.isDraggingMin = TRUE]
                                     ELSE [priceSlider EXCEPT !.isDraggingMax = TRUE]
    /\ PS_page

\* mousemove with the pointer at pixel x of the slider, or beside it
mousemoveAt(x) ==
    /\ priceSlider.built
    /\ priceSlider.isDraggingMin \/ priceSlider.isDraggingMax
    /\ LET s1 == IF priceSlider.isDraggingMin THEN handleDrag(priceSlider, x, TRUE)
                                              ELSE priceSlider
       IN  priceSlider' = IF priceSlider.isDraggingMax THEN handleDrag(s1, x, FALSE) ELSE s1
    /\ PS_page

mousemove == \E x \in (0 - 1)..(MaxPrice + 1) : mousemoveAt(x)

\* touchmove with the first touch at pixel x
touchmoveAt(x) ==
    /\ priceSlider.built
    /\ priceSlider.isDraggingMin \/ priceSlider.isDraggingMax
    /\ priceSlider' = handleDrag(priceSlider, x, priceSlider.isDraggingMin)
    /\ PS_page

touchmove == \E x \in (0 - 1)..(MaxPrice + 1) : touchmoveAt(x)

\* mouseup or touchend
release ==
    /\ priceSlider.built
    /\ priceSlider.isDraggingMin \/ priceSlider.isDraggingMax
    /\ priceSlider' = [priceSlider EXCEPT !.isDraggingMin = FALSE, !.isDraggingMax = FALSE]
    /\ PS_page

\* click on the slider or on its track, at pixel x
clickAt(x) ==
    /\ priceSlider.built
    /\ x <= priceSlider.dbMaxPrice - priceSlider.dbMinPrice
    /\ LET clickPrice == positionToPrice(priceSlider, x,
                                         priceSlider.dbMaxPrice - priceSlider.dbMinPrice)
           minPrice == parseFloat(priceSlider.minInput)
           maxPrice == parseFloat(priceSlider.maxInput)
           distToMin == IF clickPrice >= minPrice THEN clickPrice - minPrice
                                                  ELSE minPrice - clickPrice
           distToMax == IF clickPrice >= maxPrice THEN clickPrice - maxPrice
                                                  ELSE maxPrice - clickPrice
       IN  priceSlider' = IF distToMin < distToMax
                          THEN updateSlider(priceSlider, clickPrice, maxPrice)
                          ELSE updateSlider(priceSlider, minPrice, clickPrice)
    /\ PS_page

click == \E x \in 0..MaxPrice : clickAt(x)

InitSlider == InitFrom(NoImagesForm) /\ hybrid = LG_Declared /\ laptopForm = FS_NoForm /\ api = NotOnPage /\ priceSlider = PS_None /\ slotGallery = NotOnPage

NextSlider ==
    \/ construct
    \/ grab
    \/ mousemove
    \/ touchmove
    \/ release
    \/ click

SpecSlider == InitSlider /\ [][NextSlider]_vars

(***************************************************************************)
(* The listeners of the slot-based LaptopGallery.                          *)
(***************************************************************************)
\* the other components are left alone
SG_page == UNCHANGED <<images, imagesToDelete, nextTempId, currentCoverSlot, objectUrls,
                       cards, inputs, deleteInput, batch, revoked, notified, filesGiven,
                       altTimers, submitted, unloaded, hybrid, laptopForm, api,
                       priceSlider>>

\* the file lists of a bulk upload or of a drop on the drop zone
SG_FileLists == UNION {[1..n -> FileKinds] : n \in 1..MaxFiles}

\* change of #bulk-upload, or drop of files: handleFiles(files)
bulkUploadOf(files) ==
    /\ Len(files) + Cardinality({i \in SlotNumbers : slotGallery.loading[i] > 0}) <= MaxPending
    /\ \A i \in SlotNumbers : slotGallery.loading[i] < MaxPending
    /\ slotGallery' = SG_handleFiles(slotGallery, files)
    /\ SG_page

bulkUpload == \E files \in SG_FileLists : bulkUploadOf(files)

\* reader.onload of a FileReader started by uploadToSlot
readerLoadedFor(slot) ==
    /\ slotGallery.loading[slot] > 0
    /\ slotGallery' = [slotGallery EXCEPT !.loading[slot] = @ - 1, !.visible[slot] = TRUE,
                                          !.alerted = <<>>]
    /\ SG_page

readerLoaded == \E slot \in SlotNumbers : readerLoadedFor(slot)

\* click on the remove button of a slot that shows one: removeImage(slot)
removeImageOf(slot) ==
    /\ slotGallery.visible[slot]
    /\ slotGallery' = updateImageCounter([slotGallery EXCEPT !.hasFile[slot] = FALSE,
                                                            !.visible[slot] = FALSE,
                                                            !.alerted = <<>>])
    /\ SG_page

removeImage == \E slot \in SlotNumbers : removeImageOf(slot)

\* the page after LaptopGallery.init(): the previews the server rendered
\* visible are counted
InitSlotGallery ==
    /\ InitFrom(NoImagesForm)
    /\ hybrid = LG_Declared /\ laptopForm = FS_NoForm /\ api = NotOnPage /\ priceSlider = NotOnPage
    /\ \E shown \in [SlotNumbers -> BOOLEAN] :
          slotGallery = updateImageCounter([SG_Declared EXCEPT !.visible = shown])

NextSlotGallery ==
    \/ bulkUpload
    \/ readerLoaded
    \/ removeImage

SpecSlotGallery == InitSlotGallery /\ [][NextSlotGallery]_vars

(***************************************************************************)
(* What the properties read off a state or a step.                         *)
(***************************************************************************)
HasNote(ns, message) == \E k \in 1..Len(ns) : ns[k].message = message
CountNotes(ns, message) == Cardinality({k \in 1..Len(ns) : ns[k].message = message})

IdsOf(imgs) == [k \in 1..Len(imgs) |-> imgs[k].id]
SlotSet(imgs) == {imgs[k].slot : k \in 1..Len(imgs)}
IdSlots(imgs) == {<<imgs[k].id, imgs[k].slot>> : k \in 1..Len(imgs)}
CoverIds(imgs) == {imgs[k].id : k \in {j \in 1..Len(imgs) : imgs[j].isCover}}
CoverCount(imgs) == Cardinality({k \in 1..Len(imgs) : imgs[k].isCover})
LowestSlot(imgs) == CHOOSE s \in SlotSet(imgs) : \A t \in SlotSet(imgs) : s <= t

\* the handler of the step reported a deletion, a reordering
Deleted == HasNote(notified', "Imagen eliminada correctamente")
Reordered == HasNote(notified', "Imagenes reordenadas correctamente")
\* the handler of the step reported a new cover
CoverSet == HasNote(notified', "Portada actualizada correctamente")
\* the step was a choice of files, handled as call b: the call came to wait
\* for a file, or it ended at once
Started(b) ==
    /\ filesGiven' > 0
    /\ batch[b].pc = "idle"
    /\ batch'[b].pc = "decoding" \/ batch' = batch
\* the step pushed one entry (addNewImage)
Pushed == Len(images') = Len(images) + 1
\* the errors validateImageFile throws, as the catch branch reported them
Rejections(ns) ==
    CountNotes(ns, "Formato no valido") + CountNotes(ns, "Tamano maximo 5MB")
    + CountNotes(ns, "No se pudo cargar la imagen") + CountNotes(ns, "Dimensiones minimas")
\* the entries are in the order of their slots
InSlotOrder(imgs) == \A k \in 1..(Len(imgs) - 1) : imgs[k].slot <= imgs[k + 1].slot
\* the entries, whatever their order
EntrySet(imgs) == {imgs[k] : k \in 1..Len(imgs)}
\* JSON.parse of the value of #images_to_delete: the tokens are a list, and
\* the ids it lists
IsJsonList(tokens) ==
    LET n == (Len(tokens) - 1) \div 2
    IN  /\ Len(tokens) = (IF n = 0 THEN 2 ELSE 2 * n + 1)
        /\ tokens[1] = <<"[">>
        /\ tokens[Len(tokens)] = <<"]">>
        /\ \A k \in 1..n : tokens[2 * k][1] \in {"number", "string"}
        /\ \A k \in 1..(n - 1) : tokens[2 * k + 1] = <<",">>
ParsedIds(tokens) ==
    [k \in 1..((Len(tokens) - 1) \div 2) |->
        IF tokens[2 * k][1] = "number" THEN <<"slot", tokens[2 * k][2]>>
        ELSE <<tokens[2 * k][2], tokens[2 * k][3]>>]
\* the entry a deletion step removed
Removed == CHOOSE e \in {images[k] : k \in 1..Len(images)} :
               e.id \notin {images'[k].id : k \in 1..Len(images')}

C2_ExactlyOneCover == Len(images) > 0 => CoverCount(images) = 1

(***************************************************************************)
(* C3.  A single mutation (an add, a setAsCover, a delete, a drop) of a    *)
(* store with exactly one cover leaves exactly one cover when entries      *)
(* remain and none when the store is empty; an add to a store without a    *)
(* cover makes the added entry the only cover.                             *)
(***************************************************************************)
C3_MutationKeepsOneCover ==
    [][ /\ (CoverCount(images) = 1 /\ images' # images)
             => CoverCount(images') = (IF Len(images') > 0 THEN 1 ELSE 0)
        /\ (CoverCount(images) = 0 /\ Pushed)
             => CoverIds(images') = {<<"temp", nextTempId>>}
      ]_vars

\* the cover was deleted and an entry that hydration had not marked is the cover
C3_CoverPromoted ==
    /\ HasNote(notified, "Imagen eliminada correctamente")
    /\ Len(images) = 2
    /\ CoverCount(images) = 1
    /\ imagesToDelete = << <<"db", 1>> >>
    /\ images[1].isCover

(***************************************************************************)
(* C4.  images.length never exceeds maxImages, also when handleFiles calls *)
(* overlap.                                                                *)
(***************************************************************************)
C4_AtMostMaxImages == Len(images) <= maxImages

(***************************************************************************)
(* C5.  A handleFiles call with n entries present and k files: with        *)
(* n = maxImages it reports the capacity error and changes nothing;        *)
(* otherwise it takes the first min(k, maxImages - n) files and no other,  *)
(* reports the capacity warning exactly once when k > maxImages - n and    *)
(* not at all otherwise, validates the files it took one after the other   *)
(* and adds at most one entry per file it validated.                       *)
(***************************************************************************)
C5_HandleFilesTakesWhatFits ==
    /\ [][ \A b \in BatchIds :
             Started(b) =>
               LET n == Len(images)
                   k == filesGiven'
                   m == Min(k, maxImages - n)
                   rejections == CountNotes(notified', "Formato no valido")
                                 + CountNotes(notified', "Tamano maximo 5MB")
               IN  /\ images' = images
                   /\ IF n >= maxImages
                      THEN /\ notified' = <<Note("error", "Ya tienes el maximo de imagenes")>>
                           /\ batch' = batch
                      ELSE /\ CountNotes(notified', "Ya tienes el maximo de imagenes") = 0
                           /\ CountNotes(notified', "Solo puedes agregar")
                                = (IF k > maxImages - n THEN 1 ELSE 0)
                           /\ Len(notified') = rejections + (IF k > maxImages - n THEN 1 ELSE 0)
                           /\ rejections <= m
                           /\ batch'[b].pc = "decoding"
                                => /\ batch'[b].fileArray = [p \in 1..m |-> p]
                                   /\ batch'[b].i = rejections + 1
                           /\ batch'[b].pc = "idle" => rejections = m
         ]_vars
    /\ [](\A b \in BatchIds :
             batch[b].pc = "decoding"
               => /\ batch[b].i \in 1..Len(batch[b].fileArray)
                  /\ batch[b].successCount < batch[b].i)
    /\ [][ \A b \in BatchIds :
             (batch[b].pc = "decoding" /\ batch'[b] # batch[b])
               => /\ Len(images') <= Len(images) + 1
                  /\ batch'[b].pc = "decoding"
                       => /\ batch'[b].fileArray = batch[b].fileArray
                          /\ batch'[b].i > batch[b].i
                          /\ batch'[b].successCount - batch[b].successCount
                               = Len(images') - Len(images)
         ]_vars

\* a call was given more files than fit: it warned once and waits for the
\* one file it took
C5_WarnedAndTookOne ==
    /\ Len(images) = maxImages - 1
    /\ notified = <<Note("warning", "Solo puedes agregar")>>
    /\ batch[1].pc = "decoding"
    /\ Len(batch[1].fileArray) = 1

(***************************************************************************)
(* C6.  Deleting an Existing entry removes it and appends its id to        *)
(* imagesToDelete; deleting a New entry removes it, leaves imagesToDelete  *)
(* as it is, revokes its preview URL and takes the URL out of objectUrls,  *)
(* so that the URL is revoked exactly once, cleanup included.              *)
(***************************************************************************)
C6_DeleteQueuesOrReleases ==
    /\ [][ Deleted =>
             /\ Len(images') = Len(images) - 1
             /\ Removed.id \notin {images'[k].id : k \in 1..Len(images')}
             /\ IF Removed.type = "existing"
                THEN /\ imagesToDelete' = Append(imagesToDelete, Removed.id)
                     /\ revoked' = revoked
                     /\ objectUrls' = objectUrls
                ELSE /\ imagesToDelete' = imagesToDelete
                     /\ revoked[Removed.url] = 0
                     /\ revoked' = [revoked EXCEPT ![Removed.url] = 1]
                     /\ objectUrls' = objectUrls \ {Removed.url}
         ]_vars
    /\ [](\A u \in BlobUrls : revoked[u] <= 1)

\* a New entry was deleted, an Existing one as well, and the page was left
C6_DeletedBothKinds ==
    /\ unloaded
    /\ Len(imagesToDelete) = 1
    /\ \E u \in BlobUrls : revoked[u] = 1 /\ u \notin {images[k].url : k \in 1..Len(images)}
    /\ nextTempId = 2

(***************************************************************************)
(* C7.  A drop of the card at index i on the card at index j, i # j, both  *)
(* in range, moves the entry: it is taken out at i and put in at j, the    *)
(* entries between shift by one, and afterwards the entry at index k has   *)
(* slot k + 1.                                                             *)
(***************************************************************************)
C7_DropMovesEntry ==
    [][ \A i \in 0..(Len(images) - 1) : \A j \in 0..(Len(images) - 1) :
          (i # j /\ Reordered /\ cardDropOn(i, j)) =>
             /\ Len(images') = Len(images)
             /\ \A k \in 0..(Len(images) - 1) :
                  /\ images'[k + 1].slot = k + 1
                  /\ images'[k + 1].id =
                       images[(IF k = j THEN i
                               ELSE IF i < j /\ i <= k /\ k < j THEN k + 1
                               ELSE IF j < i /\ j < k /\ k <= i THEN k - 1
                               ELSE k) + 1].id
      ]_vars

\* three cards, the first dragged onto the last
C7_FirstMovedToLast ==
    /\ HasNote(notified, "Imagenes reordenadas correctamente")
    /\ IdsOf(images) = << <<"db", 2>>, <<"temp", 1>>, <<"db", 1>> >>

(***************************************************************************)
(* C8.  A reorder does not change which entry, by id, is the cover.        *)
(***************************************************************************)
C8_ReorderKeepsCover ==
    [][ Reordered =>
          /\ CoverIds(images') = CoverIds(images)
          /\ \A k \in 1..Len(images') : \E p \in 1..Len(images) :
                images[p] = [images'[k] EXCEPT !.slot = images[p].slot]
      ]_vars

\* the cover was moved from the first place to the second
C8_CoverMoved ==
    /\ HasNote(notified, "Imagenes reordenadas correctamente")
    /\ Len(images) = 2
    /\ CoverIds(images) = {<<"db", 1>>}
    /\ images[2].id = <<"db", 1>>
    /\ imagesToDelete = <<>>

(***************************************************************************)
(* C9.  When the cover is deleted and entries remain, the entry promoted   *)
(* is the surviving entry with the lowest slot, also while a handleFiles   *)
(* call has pushed entries that are not rendered yet.                      *)
(***************************************************************************)
C9_LowestSlotPromoted ==
    [][ (Deleted /\ Removed.isCover /\ CoverCount(images) = 1 /\ Len(images') > 0)
          => \A k \in 1..Len(images') :
                images'[k].isCover => images'[k].slot = LowestSlot(images')
      ]_vars

(***************************************************************************)
(* C10.  From the empty store, one handleFiles call with k <= maxImages    *)
(* files that all pass validation, no other handler in between, leaves     *)
(* exactly k New entries with slots 1..k in the order of the files, the    *)
(* first of them the only cover.                                           *)
(***************************************************************************)
C10_BatchFromEmpty ==
    [][ \A b \in BatchIds :
          LET k == Len(batch[b].fileArray) IN
          (/\ batch[b].pc = "decoding"
           /\ batch'[b].pc = "idle"
           /\ Len(images) = batch[b].successCount
           /\ Len(images') = k)
          => \A p \in 1..k :
                /\ images'[p].type = "new"
                /\ images'[p].slot = p
                /\ images'[p].name = batch[b].fileArray[p]
                /\ images'[p].source.file.name = batch[b].fileArray[p]
                /\ images'[p].isCover <=> (p = 1)
      ]_vars

\* a call of two files on the empty store has added both
C10_TwoAddedToEmpty ==
    /\ notified = <<Note("success", "agregadas correctamente")>>
    /\ Len(images) = 2
    /\ IdsOf(images) = << <<"temp", 1>>, <<"temp", 2>> >>
    /\ imagesToDelete = <<>>
    /\ noCallInFlight

(***************************************************************************)
(* C11.  In every step of a handleFiles call the files whose validation    *)
(* ended in the step are those that were added plus those that were        *)
(* rejected, one error each; a step adds at most one entry, and its file   *)
(* has a valid type and size; a step that adds none leaves the entries,    *)
(* imagesToDelete, nextTempId and the tracked preview URLs as they were;   *)
(* and the call goes on to the files after a rejected one: it ends only    *)
(* when it has validated the last file it took.                            *)
(***************************************************************************)
C11_RejectedFileChangesNothing ==
    [][ \A b \in BatchIds :
          (Started(b) \/ (batch[b].pc = "decoding" /\ batch'[b] # batch[b])) =>
            LET first == IF batch[b].pc = "idle" THEN 1 ELSE batch[b].i
                taken == IF batch[b].pc = "decoding" THEN Len(batch[b].fileArray)
                         ELSE IF Len(images) >= maxImages THEN 0
                         ELSE Min(filesGiven', maxImages - Len(images))
                next == IF batch'[b].pc = "decoding" THEN batch'[b].i ELSE taken + 1
                added == Len(images') - Len(images)
            IN  /\ added \in {0, 1}
                /\ Rejections(notified') = (next - first) - added
                /\ added = 0 =>
                      /\ EntrySet(images') = EntrySet(images)
                      /\ imagesToDelete' = imagesToDelete
                      /\ nextTempId' = nextTempId
                      /\ objectUrls' = objectUrls
                      /\ revoked' = revoked
                /\ added = 1 =>
                      \E e \in EntrySet(images') \ EntrySet(images) :
                          /\ e.type = "new"
                          /\ e.source.file.type \in validTypes
                          /\ e.source.file.size <= maxSize
                          /\ EntrySet(images') = EntrySet(images) \cup {e}
      ]_vars

\* the first file of a call was rejected and the second one was added
C11_SecondFileAddedAfterRejection ==
    /\ HasNote(notified, "agregadas correctamente")
    /\ nextTempId = 2
    /\ \E k \in 1..Len(images) :
          /\ images[k].id = <<"temp", 1>>
          /\ images[k].source.file.name = 2
          /\ images[k].alt = <<"Imagen de", 2>>

(***************************************************************************)
(* C12.  The preview URLs created so far are those of the temporary ids    *)
(* handed out.  None is revoked twice; while the page is open the tracked  *)
(* URLs are the created ones not revoked yet, and they are the URLs of the *)
(* New entries in images; a deletion has revoked and untracked the URL of  *)
(* the entry it removed; cleanup revokes exactly the tracked URLs and      *)
(* tracks none afterwards, so that once the page is left every created URL *)
(* has been revoked exactly once.                                          *)
(***************************************************************************)
C12_EveryUrlRevokedOnce ==
    /\ [](LET created == {<<"blob", n>> : n \in 1..(nextTempId - 1)}
              live == {images[k].url : k \in {j \in 1..Len(images) : images[j].type = "new"}}
          IN  /\ created \subseteq BlobUrls
              /\ \A u \in BlobUrls : revoked[u] <= 1
              /\ \A u \in BlobUrls \ created : revoked[u] = 0 /\ u \notin objectUrls
              /\ live \subseteq created
              /\ ~unloaded => /\ objectUrls = {u \in created : revoked[u] = 0}
                              /\ objectUrls = live
              /\ unloaded => /\ objectUrls = {}
                             /\ \A u \in created : revoked[u] = 1)
    /\ [][ (unloaded' /\ ~unloaded) =>
             /\ \A u \in BlobUrls :
                  revoked'[u] = revoked[u] + (IF u \in objectUrls THEN 1 ELSE 0)
             /\ objectUrls' = {}
         ]_vars

\* of two preview URLs one was revoked by a deletion, the other by cleanup
C12_OneByDeleteOneByCleanup ==
    /\ unloaded
    /\ nextTempId = 3
    /\ \A n \in 1..(nextTempId - 1) : revoked[<<"blob", n>>] = 1
    /\ Len(images) = 1
    /\ images[1].type = "new"

(***************************************************************************)
(* C13.  In every reachable state of an edit page, whatever inputs carry a *)
(* data-image-id and whatever inputs fall back to the number of their      *)
(* slot, no id of an Existing entry in images is an element of             *)
(* imagesToDelete; and no id is queued twice.                              *)
(***************************************************************************)
C13_NoIdLiveAndQueued ==
    /\ \A k \in 1..Len(images) :
          images[k].type = "existing"
            => \A q \in 1..Len(imagesToDelete) : imagesToDelete[q] # images[k].id
    /\ \A p, q \in 1..Len(imagesToDelete) : p # q => imagesToDelete[p] # imagesToDelete[q]

\* the entry whose id is the number 2 was deleted after a reorder, the entry
\* whose data-image-id is "2" is still there
C13_SlotIdQueuedKeyLive ==
    /\ imagesToDelete = << <<"slot", 2>> >>
    /\ HasNote(notified, "Imagen eliminada correctamente")
    /\ Len(images) = 2
    /\ images[1].id = <<"db", 2>>
    /\ images[1].slot = 2

(***************************************************************************)
(* C14.  As claimed: the inputs of every slot that no entry of images      *)
(* occupies are clear: no file, an empty alt text, cover 'false'.          *)
(***************************************************************************)
C14_FreeSlotsCleared ==
    \A i \in Slots :
        i \notin SlotSet(images)
          => inputs[i] = [files |-> <<>>, alt |-> <<>>, cover |-> "false"]

(***************************************************************************)
(* C15.  As claimed: the file input of every slot that an Existing entry   *)
(* occupies holds no file.                                                 *)
(***************************************************************************)
C15_NoFileWithExisting ==
    \A k \in 1..Len(images) :
        (images[k].type = "existing" /\ images[k].slot \in Slots)
          => inputs[images[k].slot].files = <<>>

(***************************************************************************)
(* C16.  As claimed: when no handleFiles call is in flight, every entry    *)
(* has a slot of the form, and the inputs of that slot hold the alt text   *)
(* of the entry, 'true' exactly when it is the cover, and for a New entry  *)
(* its file.                                                               *)
(***************************************************************************)
C16_FieldsEqualEntries ==
    noCallInFlight =>
        \A k \in 1..Len(images) :
            /\ images[k].slot \in Slots
            /\ inputs[images[k].slot].alt = images[k].alt
            /\ inputs[images[k].slot].cover = (IF images[k].isCover THEN "true" ELSE "false")
            /\ images[k].type = "new"
                  => inputs[images[k].slot].files = <<images[k].source.file>>

(***************************************************************************)
(* C17.  In every state the value of #images_to_delete is a JSON list and  *)
(* lists imagesToDelete, element by element (a number for a fallback id, a *)
(* string for a data-image-id); a step that deletes an Existing entry      *)
(* appends its id to imagesToDelete and every other step leaves            *)
(* imagesToDelete as it is, so that it holds the ids of the Existing       *)
(* entries deleted so far, in the order of their deletion, and none is     *)
(* ever taken out.                                                         *)
(***************************************************************************)
C17_DeletedIdsListed ==
    /\ [](/\ IsJsonList(deleteInput)
          /\ ParsedIds(deleteInput) = imagesToDelete
          /\ \A q \in 1..Len(imagesToDelete) : imagesToDelete[q][1] \in {"db", "slot"})
    /\ [][ IF Deleted /\ Removed.type = "existing"
           THEN imagesToDelete' = Append(imagesToDelete, Removed.id)
           ELSE imagesToDelete' = imagesToDelete
         ]_vars

\* an entry with a fallback id, a New entry and an entry with a key were
\* deleted, in this order
C17_NumberThenString ==
    /\ deleteInput = << <<"[">>, <<"number", 1>>, <<",">>, <<"string", "db", 1>>, <<"]">> >>
    /\ HasNote(notified, "Imagen eliminada correctamente")
    /\ nextTempId = 2
    /\ revoked[<<"blob", 1>>] = 1
    /\ images = <<>>

(***************************************************************************)
(* C18.  As claimed: when the form has been submitted, its inputs hold     *)
(* every entry of images (alt text, cover flag, file) and every text       *)
(* typed into the alt editor of an entry that is still there.              *)
(***************************************************************************)
C18_SubmittedFormInSync ==
    submitted =>
        /\ \A k \in 1..Len(images) :
              /\ images[k].slot \in Slots
              /\ inputs[images[k].slot].alt = images[k].alt
              /\ inputs[images[k].slot].cover = (IF images[k].isCover THEN "true" ELSE "false")
              /\ images[k].type = "new"
                    => inputs[images[k].slot].files = <<images[k].source.file>>
        /\ \A timer \in altTimers : \A k \in 1..Len(images) :
              TypedFor(images[k].id) = timer.value
                => inputs[images[k].slot].alt = timer.value

(***************************************************************************)
(* C19.  As claimed: when the timer of the text typed into the editor of   *)
(* entry X fires, the text is the alt text of X if X is still in images,   *)
(* and the alt text of every other entry is what it was.                   *)
(***************************************************************************)
C19_TypedTextCommittedToItsEntry ==
    [][ \A timer \in altTimers :
          (altTimers' = altTimers \ {timer} /\ ~unloaded') =>
            /\ Len(images') = Len(images)
            /\ \A k \in 1..Len(images') :
                  IF TypedFor(images'[k].id) = timer.value
                  THEN images'[k].alt = timer.value
                  ELSE images'[k].alt = images[k].alt
      ]_vars

(***************************************************************************)
(* C20.  As claimed: a step that reorders the cards reports the reordering *)
(* and nothing else, no capacity error and no capacity warning; a drop of  *)
(* a card on itself reports nothing; and a step that is given files leaves *)
(* the entries and their order as they are and reports no reordering.      *)
(***************************************************************************)
C20_DropIsReorderOrFiles ==
    [][ /\ Reordered =>
              notified' = <<Note("success", "Imagenes reordenadas correctamente")>>
        /\ (\E i \in 0..(cards - 1) : cardDropOn(i, i)) => notified' = <<>>
        /\ filesGiven' > 0 => (images' = images /\ ~Reordered)
      ]_vars

C22_DropOutOfRangeIsNoOp ==
    [][ \A draggedIndex \in Indices, targetIndex \in Indices :
          ( /\ dropCalledWith(draggedIndex, targetIndex)
            /\ \/ draggedIndex = targetIndex
               \/ draggedIndex \notin 0..(Len(images) - 1)
               \/ targetIndex \notin 0..(Len(images) - 1) )
          => /\ images' = images
             /\ currentCoverSlot' = currentCoverSlot
             /\ imagesToDelete' = imagesToDelete
      ]_vars

(***************************************************************************)
(* C23.  When the user declines the confirmation in deleteImage, nothing   *)
(* of the store changes: images (and with it the cover), imagesToDelete,   *)
(* currentCoverSlot and the tracked preview URLs are unchanged, no URL is  *)
(* revoked, and the cards and the form fields stay as they were.           *)
(***************************************************************************)
C23_DeclinedDeleteKeepsStore ==
    [][ notified' = <<ConfirmPrompt>> =>
          UNCHANGED <<images, imagesToDelete, currentCoverSlot, objectUrls, revoked,
                      cards, inputs, deleteInput>>
      ]_vars

\* the deletion of an added image, whose preview URL is tracked, was declined
C23_DeclinedWithPreviewTracked ==
    /\ notified = <<ConfirmPrompt>>
    /\ \E k \in 1..Len(images) :
          /\ images[k].type = "new"
          /\ images[k].url \in objectUrls
          /\ revoked[images[k].url] = 0
    /\ \E k \in 1..Len(images) : images[k].type = "existing" /\ images[k].isCover
    /\ imagesToDelete = <<>>

(***************************************************************************)
(* C24.  updateAltText(index, text) changes only the alt text of the entry *)
(* at that index, and nothing when the index is out of range: the order of *)
(* the entries, their slots, cover flags, ids and types, imagesToDelete    *)
(* and currentCoverSlot are unchanged, and nothing is rendered again (the  *)
(* cards stay as they were).                                               *)
(***************************************************************************)
C24_UpdateAltTextChangesOneAlt ==
    [][ \A index \in Indices :
          updateAltTextCalledWith(index) =>
            /\ imagesToDelete' = imagesToDelete
            /\ currentCoverSlot' = currentCoverSlot
            /\ cards' = cards
            /\ IF index \in 0..(Len(images) - 1)
               THEN images' = [images EXCEPT ![index + 1].alt = CalledText]
               ELSE images' = images /\ inputs' = inputs
      ]_vars

\* the text was written to an entry while a handleFiles call had pushed an
\* entry that no card shows yet and that is not at the place of its slot
C24_AltWrittenBetweenDecodes ==
    /\ \E k \in 1..Len(images) : images[k].alt = CalledText
    /\ batch[1].pc = "decoding"
    /\ cards < Len(images)
    /\ ~InSlotOrder(images)

(***************************************************************************)
(* C26.  Whenever images is not empty, currentCoverSlot (what getState     *)
(* returns as coverSlot) is the slot of an entry whose isCover is true.    *)
(***************************************************************************)
C26_CoverSlotIsSlotOfCover ==
    Len(images) > 0 =>
        \E k \in 1..Len(images) : images[k].isCover /\ images[k].slot = currentCoverSlot

(***************************************************************************)
(* C27.  laptop_gallery.js: after a card drop from index i onto index      *)
(* j # i (drop with its render and syncFormInputs) the dragged entry is at *)
(* index j with slot j + 1 and the other entries are in the order they had.*)
(***************************************************************************)
C27_HybridDropMovesEntry ==
    [][ \A i \in 0..(maxImages - 1), j \in 0..(maxImages - 1) :
          (LG_cardDropOn(i, j) /\ i # j) =>
              /\ hybrid'.images[j + 1].id = hybrid.images[i + 1].id
              /\ hybrid'.images[j + 1].slot = j + 1
              /\ IdsOf(spliceOut(hybrid'.images, j)) = IdsOf(spliceOut(hybrid.images, i))
      ]_vars

(***************************************************************************)
(* C28.  laptop_gallery.js: whenever the gallery holds no entry (it was    *)
(* initialised with no images, or the last entry was deleted) the          *)
(* placeholder is shown, the counter reads 0 and the form fields are       *)
(* synchronised: images_to_delete is the JSON list of imagesToDelete, so   *)
(* it holds the id of a stored image that was deleted last.                *)
(***************************************************************************)
C28_EmptyGalleryShownAndSynced ==
    /\ [](Len(hybrid.images) = 0 =>
            /\ hybrid.placeholder
            /\ hybrid.counter = 0
            /\ hybrid.deleteInput = stringify(hybrid.imagesToDelete))
    /\ [][ \A index \in 0..(maxImages - 1) :
            ( /\ LG_clickDeleteOn(index, TRUE)
              /\ Len(hybrid.images) = 1
              /\ hybrid.images[1].type = "existing" )
            => \E k \in 1..Len(hybrid'.deleteInput) :
                  hybrid'.deleteInput[k] = jsonOfId(hybrid.images[1].id)
          ]_vars

RECURSIVE InFieldOrder(_, _)
\* the fields of S in the order of fieldsToProcess, from field k on
InFieldOrder(S, k) ==
    IF k > Len(fieldsToProcess) THEN <<>>
    ELSE (IF fieldsToProcess[k] \in S THEN <<fieldsToProcess[k]>> ELSE <<>>)
         \o InFieldOrder(S, k + 1)

(***************************************************************************)
(* C29.  The laptop form is submitted natively only after the creation     *)
(* POST of every field that held a 'new:' value when the submit handler    *)
(* ran has succeeded; the POSTs of an attempt are issued in the order of   *)
(* fieldsToProcess, one at a time: at most one is unanswered, and each but *)
(* the first is issued when the one before it has succeeded.               *)
(***************************************************************************)
C29_SubmitAfterEveryCreation ==
    LET posted == [k \in 1..Len(laptopForm.posted) |-> laptopForm.posted[k].field]
        due == InFieldOrder(laptopForm.heldNew, 1)
    IN  /\ Len(posted) <= Len(due)
        /\ posted = SubSeq(due, 1, Len(posted))
        /\ Len(laptopForm.succeeded) <= Len(posted)
        /\ laptopForm.succeeded = SubSeq(posted, 1, Len(laptopForm.succeeded))
        /\ Len(posted) <= Len(laptopForm.succeeded) + 1
        /\ laptopForm.chain.awaiting => Len(posted) = Len(laptopForm.succeeded) + 1
        /\ laptopForm.sent # <<>> => laptopForm.succeeded = due

\* the form was submitted after two creations
C29_SubmittedAfterTwoPosts ==
    /\ laptopForm.sent # <<>>
    /\ Cardinality(laptopForm.heldNew) = 2
    /\ Len(laptopForm.succeeded) = 2

(***************************************************************************)
(* C30.  The laptop form is never submitted natively while a catalog field *)
(* holds a value that starts with 'new:'.                                  *)
(***************************************************************************)
C30_NoNewValueSubmitted ==
    laptopForm.sent # <<>> =>
        \A f \in FieldNames : ~startsWithNew(laptopForm.sent[1][f])

(***************************************************************************)
(* C25.  The slot values of the entries of images are pairwise distinct in *)
(* every reachable state.                                                  *)
(***************************************************************************)
C25_SlotsDistinct ==
    \A k \in 1..Len(images), m \in 1..Len(images) :
        k # m => images[k].slot # images[m].slot

(***************************************************************************)
(* C31.  In an attempt that began with 'new:' values in both #brand_id and *)
(* #model_id and that no POST has failed: the first POST creates the       *)
(* brand; once the brand is created the POST of the model has been issued, *)
(* carrying the value of #brand_id as brand_id when that value is the id   *)
(* of a row; and once every creation has succeeded the form has been       *)
(* submitted natively.                                                     *)
(***************************************************************************)
C31_BrandThenModelThenSubmit ==
    LET s == laptopForm
        due == InFieldOrder(s.heldNew, 1)
    IN  ({"brand_id", "model_id"} \subseteq s.heldNew /\ s.disabled) =>
            /\ s.posted # <<>>
            /\ s.posted[1].field = "brand_id"
            /\ Len(s.succeeded) >= 1 =>
                  /\ Len(s.posted) >= 2
                  /\ s.posted[2].field = "model_id"
                  /\ s.posted[2].brand_id \in {NoValue} \cup {RowId(n) : n \in 1..2}
            /\ Len(s.succeeded) = Len(due) => s.sent # <<>>

(***************************************************************************)
(* C32.  When every creation POST is answered, an attempt that has         *)
(* disabled the submit buttons leads to the native submission of the form  *)
(* or to the buttons being enabled again.                                  *)
(***************************************************************************)
C32_AttemptEnds ==
    laptopForm.disabled ~> (laptopForm.sent # <<>> \/ ~laptopForm.disabled)

C34_RetryRequestBounded ==
    /\ [](LET n == Len(api.calls)
          IN  /\ n <= api.maxRetries
              /\ api.attempt <= api.maxRetries
              /\ \A k \in 1..(n - 1) : api.calls[k].kind # "ok"
              /\ api.pc = "returned" <=> (n > 0 /\ api.calls[n].kind = "ok")
              /\ api.pc = "thrown" =>
                    /\ n > 0
                    /\ api.thrownError = requestError(api.calls[n])
              /\ (n = api.maxRetries /\ n > 0 /\ api.calls[n].kind # "ok") =>
                    api.pc = "thrown")
    /\ (api.pc = "calling" ~> api.pc \in {"returned", "thrown"})

\* three calls failed, each with another error, and the last error was thrown
C34_ThirdErrorThrown ==
    /\ api.pc = "thrown"
    /\ api.maxRetries = 3
    /\ Len(api.calls) = 3
    /\ api.calls[1].kind = "network"
    /\ api.calls[2].status = 429
    /\ api.calls[3].status = 500
    /\ api.thrownError = <<"E", "r", "r", "o", "r", " ", "5", "0", "0">>

(***************************************************************************)
(* C35.  A call of request that failed is followed by another attempt when *)
(* it failed by the network, by status 429 or by a 5xx status and attempts *)
(* remain; when it failed by another 4xx status its error is thrown at     *)
(* once.                                                                   *)
(***************************************************************************)
C35_RetryByHttpOutcome ==
    LET n == Len(api.calls)
        retried(o) == o.kind = "network" \/ o.status = 429 \/ o.status >= 500
    IN  /\ \A k \in 1..(n - 1) : retried(api.calls[k])
        /\ api.pc = "sleeping" => retried(api.calls[n])
        /\ (api.pc = "thrown" /\ n < api.maxRetries) => ~retried(api.calls[n])

(***************************************************************************)
(* C36.  A value that getDashboardData or getCategories returns from the   *)
(* cache arrived less than 5 minutes before the call.                      *)
(***************************************************************************)
C36_CachedValueIsFresh ==
    \A k \in 1..Len(api.returned) :
        api.returned[k].cached => api.returned[k].age < maxAge

(***************************************************************************)
(* C37.  Once a PriceSlider is constructed, the values of the hidden       *)
(* inputs satisfy dbMinPrice <= min < max <= dbMaxPrice.                   *)
(***************************************************************************)
C37_InputsWithinRange ==
    priceSlider.built =>
        /\ toFixed2(priceSlider.dbMinPrice) <= priceSlider.minInput
        /\ priceSlider.minInput < priceSlider.maxInput
        /\ priceSlider.maxInput <= toFixed2(priceSlider.dbMaxPrice)

(***************************************************************************)
(* C38.  In the slot-based gallery, when no FileReader load is under way,  *)
(* totalImages and the text of #image-counter are the number of slots      *)
(* whose preview is visible.                                               *)
(***************************************************************************)
C38_CounterIsVisibleSlots ==
    (\A i \in SlotNumbers : slotGallery.loading[i] = 0) =>
        LET shown == Cardinality({i \in SlotNumbers : slotGallery.visible[i]})
        IN  slotGallery.totalImages = shown /\ slotGallery.counter = shown

====
